---- MODULE Spec2Model ----
(***************************************************************************)
(* Signal/alarm evaluation engine of the Alco ESP monitor                  *)
(* (src/alco_esp/qt_client.py, class AlcoEspMonitor).                      *)
(*                                                                         *)
(* Temperatures and thresholds are fixed-point integers in tenths of a     *)
(* degree Celsius (70.0 C is 700); every value used is exactly             *)
(* representable, so the float arithmetic of the source is exact on them.  *)
(* Time is in whole seconds.  An MQTT payload string is a record: kind     *)
(* "number" (float() accepts it, value is the parsed number), kind "text"  *)
(* (float() raises ValueError) or kind "absent" (dict.get returned None).  *)
(***************************************************************************)
EXTENDS Integers, Sequences, FiniteSets, TLC

VARIABLES settings, all_latest_values, data, timestamps,
          monitoring_active, triggered,
          last_mqtt_message_time, mqtt_data_timeout_alarm_active,
          mqtt_thread_running, mqtt_thread_deleted, now, halted, handled,
          queue, emitted, alarm_dialogs, spinbox, publishRequested,
          client, subscriptions, publishing, out_messages, published,
          connectionStatus, msg_topic,
          device_state, requested_work_mode, on_message_pc, main_pc,
          device_published, command,
          alco_device_state, alco_main_pc, alco_sent, alco_inbox,
          alco_command,
          lastOp, found, evals, alarms, raised

vars == <<settings, all_latest_values, data, timestamps,
          monitoring_active, triggered,
          last_mqtt_message_time, mqtt_data_timeout_alarm_active,
          mqtt_thread_running, mqtt_thread_deleted, now, halted, handled,
          queue, emitted, alarm_dialogs, spinbox, publishRequested,
          client, subscriptions, publishing, out_messages, published,
          connectionStatus, msg_topic,
          device_state, requested_work_mode, on_message_pc, main_pc,
          device_published, command,
          alco_device_state, alco_main_pc, alco_sent, alco_inbox,
          alco_command,
          lastOp, found, evals, alarms, raised>>

\* the state of the MqttWorker and of its paho client
workerVars == <<client, subscriptions, publishing, out_messages, published,
                connectionStatus>>

\* what the handlers of the main window leave alone
\* the state of device_emulator.py: its dict, the two threads' positions,
\* the publication made last and the command received last
emulatorVars == <<device_state, requested_work_mode, on_message_pc, main_pc,
                  device_published, command>>

\* the state of alco_esp_device_emulator.py: its dict, the main loop's
\* position, its publications on the way to the broker, the messages the
\* broker has forwarded to it, and the command received last
alcoVars == <<alco_device_state, alco_main_pc, alco_sent, alco_inbox,
              alco_command>>

restVars == <<workerVars, msg_topic, emulatorVars, alcoVars>>

\* the state of the main window
windowVars == <<settings, all_latest_values, data, timestamps,
              monitoring_active, triggered,
              last_mqtt_message_time, mqtt_data_timeout_alarm_active,
              mqtt_thread_running, mqtt_thread_deleted, now, halted, handled,
              queue, emitted, alarm_dialogs, spinbox, publishRequested>>

\* what the handlers of the worker leave alone, without the record of the
\* last handler
outsideWorker == <<windowVars, msg_topic, emulatorVars, alcoVars>>

----------------------------------------------------------------------------
(* Program constants *)

chart_temperature_topics == {"term_d", "term_c", "term_k"}

\* topics read by update_text_displays through float()
text_display_topics == {"term_d", "term_c", "term_k", "power", "press_a"}

MQTT_DATA_TIMEOUT_SECONDS == 60

DEFAULT_T_SIGNAL_KUB == 600
DEFAULT_T_SIGNAL_DEFLEGMATOR == 700
DEFAULT_DELTA_T == 2
DEFAULT_PERIOD_SECONDS == 60

TERM_K_70 == 700

Signals == {"t_kub", "t_deflegmator", "stability"}
ThresholdSignals == {"t_kub", "t_deflegmator"}

\* keyword arguments of check_t_kub_signal / check_t_deflegmator_signal
topic_key(sig) == IF sig = "t_kub" THEN "term_k" ELSE "term_d"
setting_key(sig) == IF sig = "t_kub" THEN "t_signal_kub" ELSE "t_signal_deflegmator"

----------------------------------------------------------------------------
(* Bounds of the model *)

\* capacity of the per-channel deques (deque(maxlen=window_size))
window_size == 3
\* the clock stops advancing at MaxTime
MaxTime == 2
\* number of inbound messages handled in one run
MaxMessages == 4
\* the same for the runs of NextStability
MaxStabilityMessages == 6

\* the clock, the messages and the emissions of the other runs
MaxWindowTime == 2
MaxWindowMessages == 5
MaxSettingsMessages == 5
MaxWatchdogTime == 124
MaxWatchdogMessages == 2
MaxEmitted == 4
\* messages the client hands to the broker or keeps for it in one run
MaxPublished == 3
\* the length of the topics after the prefix and the messages received in
\* the runs of NextTopic
MaxRestLen == 4
\* publications of alco_esp_device_emulator.py on the way to the broker
\* and messages forwarded to it and not yet handled
MaxAlcoSent == 2
MaxAlcoInbox == 2
MaxTopicMessages == 1
\* latest instant and number of messages of the runs with alarm dialogs
MaxAlarmTime == 62
MaxAlarmMessages == 2
\* publication requests the worker thread has not taken yet
MaxPublishRequested == 3

\* amounts by which the wall clock advances between two handlers
TimeSteps == {2}
WindowTimeSteps == {1}
WatchdogTimeSteps == {30, 31}

----------------------------------------------------------------------------
(* Payloads *)

None == [kind |-> "absent", value |-> 0]
Text == [kind |-> "text", value |-> 0]
Number(v) == [kind |-> "number", value |-> v]

NoTime == -1

\* float(payload_str) succeeds
ParsesAsFloat(p) == p.kind = "number"

Topics == {"term_k", "term_d", "term_c", "power"}

\* the suffixes of the topics the client publishes to
control_topics ==
    [t \in {"work", "otbor_g_1_new", "term_c_max_new", "term_c_min_new",
            "otbor_t_new"} |-> t]

\* A str is a sequence of pieces of text: the user name, "/", "#" and the
\* topic names, none of which is part of another.
username == "u"

\* self.topic_prefix = f"{username}/"
topic_prefix == <<username, "/">>

\* wildcard_topic = f"{self.topic_prefix}#"
wildcard_topic == topic_prefix \o <<"#">>

\* full_topic = self.topic_prefix + topic_suffix
FullTopic(topic_suffix) == topic_prefix \o <<topic_suffix>>

StartsWith(s, prefix) ==
    /\ Len(s) >= Len(prefix)
    /\ SubSeq(s, 1, Len(prefix)) = prefix

\* str.replace(old, new) for a non-empty old: every occurrence of old,
\* found from left to right without overlap, becomes new
RECURSIVE replace(_, _, _)
replace(s, old, new) ==
    IF s = <<>> THEN <<>>
    ELSE IF StartsWith(s, old)
         THEN new \o replace(SubSeq(s, Len(old) + 1, Len(s)), old, new)
         ELSE <<Head(s)>> \o replace(Tail(s), old, new)

\* the broker's matching of a topic against a subscribed filter: a
\* trailing "#" stands for any remainder
Matches(filter, topic) ==
    IF filter # <<>> /\ filter[Len(filter)] = "#"
    THEN StartsWith(topic, SubSeq(filter, 1, Len(filter) - 1))
    ELSE filter = topic

\* the copies of one publication the broker forwards to the client, one
\* for each subscribed filter that matches
Copies(topic) ==
    Cardinality({f \in {subscriptions[i] : i \in 1..Len(subscriptions)} :
                    Matches(f, topic)})

\* topic = msg.topic.replace(self.topic_prefix, "")
TopicKey(topic) == replace(topic, topic_prefix, <<>>)

\* term_c_max_telo_spinbox (T stop), term_c_min_telo_spinbox (T start) and
\* otbor_t_spinbox (PWM, per cent)
SpinBoxes == {"term_c_max_telo", "term_c_min_telo", "otbor_t"}

\* one message as carried by the messageReceived signal
Message(topic, payload) == [topic |-> topic, payload |-> payload]

DefaultSettings ==
    [t_signal_kub |-> DEFAULT_T_SIGNAL_KUB,
     t_signal_deflegmator |-> DEFAULT_T_SIGNAL_DEFLEGMATOR,
     delta_t |-> DEFAULT_DELTA_T,
     period_seconds |-> DEFAULT_PERIOD_SECONDS]

Payloads(topic) ==
    CASE topic = "term_k" -> {Text, Number(700), Number(720), Number(760)}
      [] topic = "term_d" -> {Number(690), Number(700)}
      [] topic = "term_c" -> {Number(620)}
      [] OTHER            -> {}

SettingsChoices ==
    {DefaultSettings,
     [DefaultSettings EXCEPT !.t_signal_kub = 760, !.delta_t = 40],
     [DefaultSettings EXCEPT !.t_signal_deflegmator = 690],
     [DefaultSettings EXCEPT !.period_seconds = 1]}

StabilityPayloads(topic) ==
    IF topic = "term_k" THEN {Number(800), Number(810), Number(790)}
    ELSE {Number(700), Number(705), Number(695)}

WindowPayloads(topic) ==
    CASE topic = "term_k" -> {Number(800), Number(830), Text}
      [] topic = "term_c" -> {Number(700)}
      [] topic = "power"  -> {Number(1000)}
      [] OTHER            -> {}

WindowSettingsChoices ==
    {[DefaultSettings EXCEPT !.period_seconds = p] : p \in {1, DEFAULT_PERIOD_SECONDS}}

SettingsRunPayloads(topic) ==
    CASE topic = "term_k" -> {Number(760), Number(710)}
      [] topic = "term_c" -> {Number(620)}
      [] OTHER            -> {}

\* settings that differ from one another in one parameter at a time
SettingsRunChoices ==
    {DefaultSettings,
     [DefaultSettings EXCEPT !.delta_t = 40],
     [DefaultSettings EXCEPT !.delta_t = 40, !.t_signal_kub = 760],
     [DefaultSettings EXCEPT !.delta_t = 40, !.t_signal_kub = 760,
                             !.t_signal_deflegmator = 690]}

WatchdogPayloads(topic) ==
    CASE topic = "term_d" -> {Number(690)}
      [] topic = "power"  -> {Number(1000)}
      [] OTHER            -> {}

\* a cube and a deflegmator temperature at or above their default thresholds
AlarmPayloads(topic) ==
    CASE topic = "term_k" -> {Number(720)}
      [] topic = "term_d" -> {Number(700)}
      [] OTHER            -> {}

\* values the operator enters: T stop and T start in tenths of a degree, the
\* PWM in per cent
SpinBoxValues(w) ==
    IF w = "otbor_t" THEN {50} ELSE {780, 790}

QueuePayloads(topic) ==
    CASE topic = "term_k" -> {Number(720), Number(760)}
      [] topic = "term_c" -> {Number(620)}
      [] OTHER            -> {}

StabilitySettingsChoices ==
    {[DefaultSettings EXCEPT !.delta_t = d] : d \in {DEFAULT_DELTA_T, 10, 20}}

----------------------------------------------------------------------------
(* Pure helpers *)

DequeAppend_keeps_oldest(q, x) ==
    IF Len(q) >= window_size THEN q ELSE Append(q, x)

DequeAppend_left(q, x) ==
    IF Len(q) >= window_size THEN <<x>> \o SubSeq(q, 1, Len(q) - 1) ELSE <<x>> \o q

\* deque.append on a deque created with maxlen=window_size
DequeAppend(q, x) ==
    IF Len(q) >= window_size THEN Tail(q) \o <<x>> ELSE Append(q, x)

\* the for/else loop of get_windowed_data: scan from the right, stop at the
\* first timestamp older than start_time (1-based index of the first kept one)
RECURSIVE ScanStartIndex(_, _, _)
ScanStartIndex(ts_deque, i, start_time) ==
    IF i = 0 THEN 1
    ELSE IF ts_deque[i] < start_time THEN i + 1
    ELSE ScanStartIndex(ts_deque, i - 1, start_time)

get_windowed_data_exclusive(ts_deque, data_deque, start_time) ==
    SubSeq(data_deque, ScanStartIndex(ts_deque, Len(ts_deque), start_time + 1),
           Len(data_deque))

get_windowed_data(ts_deque, data_deque, start_time) ==
    SubSeq(data_deque, ScanStartIndex(ts_deque, Len(ts_deque), start_time),
           Len(data_deque))

Min2(a, b) == IF a < b THEN a ELSE b

LastN_first(lst, n) == SubSeq(lst, 1, n)

\* lst[-n:] for 1 <= n <= len(lst)
LastN(lst, n) == SubSeq(lst, Len(lst) - n + 1, Len(lst))

\* [k - c for k, c in zip(k_recent, c_recent)]
ZipDiff(k_recent, c_recent) ==
    [i \in 1..Min2(Len(k_recent), Len(c_recent)) |-> k_recent[i] - c_recent[i]]

RECURSIVE ListMax(_)
ListMax(lst) ==
    IF Len(lst) = 1 THEN lst[1]
    ELSE LET m == ListMax(Tail(lst)) IN IF lst[1] >= m THEN lst[1] ELSE m

RECURSIVE ListMin(_)
ListMin(lst) ==
    IF Len(lst) = 1 THEN lst[1]
    ELSE LET m == ListMin(Tail(lst)) IN IF lst[1] <= m THEN lst[1] ELSE m

----------------------------------------------------------------------------
(* The evaluation.  c is what the evaluation reads and never writes        *)
(* (settings, all_latest_values, data, timestamps, now); e is what it      *)
(* writes: the signal flags, the AlarmSink calls made so far (alarms), the *)
(* outcome of every signal evaluation so far (evals) and whether an        *)
(* exception is propagating (raised; every later statement is skipped).    *)

\* alarm_message_with_sound(message): one AlarmSink call for signal sig
alarm_message_with_sound_keeps_old(e, sig) ==
    [e EXCEPT !.alarms = Append(@, sig),
              !.dialogs = Append(@, [message |-> sig, visible |-> TRUE])]

\* whatever current_alarm_dialog refers to is closed and discarded, then a
\* new AlarmNotificationDialog with the message is created and shown
alarm_message_with_sound(e, sig) ==
    [e EXCEPT !.alarms = Append(@, sig),
              !.dialogs = <<[message |-> sig, visible |-> TRUE]>>]

\* outcome of one evaluation of sig: the flags found at entry (before), the
\* branch taken, the flags after the branch body and the number of AlarmSink
\* calls the branch body made
Report(after, before, sig, result) ==
    [after EXCEPT !.evals = Append(@,
        [sig |-> sig,
         was_active |-> before.monitoring_active[sig],
         was_triggered |-> before.triggered[sig],
         result |-> result,
         active |-> after.monitoring_active[sig],
         triggered |-> after.triggered[sig],
         alarm |-> Len(after.alarms) - Len(before.alarms),
         k_window |-> <<>>, c_window |-> <<>>, dts |-> <<>>])]

\* the locals of the evaluation just reported: k_data_window, c_data_window
\* and dts_in_window of check_temperature_stability_signal
Locals(e, k_data_window, c_data_window, dts_in_window) ==
    [e EXCEPT !.evals[Len(e.evals)].k_window = k_data_window,
              !.evals[Len(e.evals)].c_window = c_data_window,
              !.evals[Len(e.evals)].dts = dts_in_window]

\* an exception leaves the evaluation of sig and propagates
Raise(e, sig) ==
    [Report(e, e, sig, "raised") EXCEPT !.raised = TRUE]

ThresholdReached_strict(temp_value, threshold) == temp_value > threshold

\* temp_value >= threshold
ThresholdReached(temp_value, threshold) == temp_value >= threshold

\* float(temp_value) < threshold  (monitoring not active)
BelowThreshold(temp_value, threshold) == temp_value < threshold

StabilityGated_strict(term_k) == term_k < TERM_K_70

\* term_k <= TERM_K_70
StabilityGated(term_k) == term_k <= TERM_K_70

TooFewPairs_one(num_pairs) == num_pairs < 1

\* num_pairs < 2
TooFewPairs(num_pairs) == num_pairs < 2

StabilityReached_strict(variation, delta_t_threshold) == variation < delta_t_threshold

\* variation <= delta_t_threshold
StabilityReached(variation, delta_t_threshold) == variation <= delta_t_threshold

RECURSIVE check_signal_conditions(_, _)
RECURSIVE reset_t_kub_signal(_, _)
RECURSIVE reset_t_deflegmator_signal(_, _)
RECURSIVE reset_stability_signal(_, _)
RECURSIVE check_temperature_signal(_, _, _)

TriggerThreshold_disarms(e, sig) ==
    LET e1 == [e EXCEPT !.monitoring_active[sig] = FALSE]
    IN Report(alarm_message_with_sound(e1, sig), e, sig, "triggered")

TriggerThreshold_keepsMonitoring(e, sig) ==
    LET e1 == [e EXCEPT !.triggered[sig] = TRUE]
    IN Report(alarm_message_with_sound(e1, sig), e, sig, "triggered")

\* the trigger branch of _check_temperature_signal
TriggerThreshold(e, sig) ==
    LET e1 == [e EXCEPT !.triggered[sig] = TRUE,
                        !.monitoring_active[sig] = FALSE]
    IN Report(alarm_message_with_sound(e1, sig), e, sig, "triggered")

reset_func_both(c, e, sig) ==
    IF sig = "t_kub"
    THEN reset_t_deflegmator_signal(c, reset_t_kub_signal(c, e))
    ELSE reset_t_kub_signal(c, reset_t_deflegmator_signal(c, e))

\* reset_func of check_t_kub_signal / check_t_deflegmator_signal
reset_func(c, e, sig) ==
    IF sig = "t_kub" THEN reset_t_kub_signal(c, e)
    ELSE reset_t_deflegmator_signal(c, e)

check_temperature_signal(c, e, sig) ==
    LET temp_value == c.all_latest_values[topic_key(sig)]
        threshold == c.settings[setting_key(sig)]
    IN
    IF e.raised THEN e
    ELSE IF e.monitoring_active[sig] THEN
        IF temp_value # None THEN
            IF ~ParsesAsFloat(temp_value) THEN Raise(e, sig)
            ELSE IF ThresholdReached(temp_value.value, threshold)
                 THEN TriggerThreshold(e, sig)
                 ELSE Report(e, e, sig, "monitoring")
        ELSE Report(e, e, sig, "waiting")
    ELSE
        IF temp_value # None THEN
            IF ~ParsesAsFloat(temp_value) THEN Raise(e, sig)
            ELSE IF BelowThreshold(temp_value.value, threshold)
                 THEN reset_stability_signal(c,
                          reset_func(c, Report(e, e, sig, "autoclear"), sig))
                 ELSE Report(e, e, sig, "disabled")
        ELSE Report(e, e, sig, "disabled")

check_t_kub_signal(c, e) == check_temperature_signal(c, e, "t_kub")

check_t_deflegmator_signal(c, e) == check_temperature_signal(c, e, "t_deflegmator")

TriggerStability_silent(e) ==
    LET e1 == [e EXCEPT !.triggered["stability"] = TRUE,
                        !.monitoring_active["stability"] = FALSE]
    IN Report(e1, e, "stability", "triggered")

TriggerStability_keepsMonitoring(e) ==
    LET e1 == [e EXCEPT !.triggered["stability"] = TRUE]
    IN Report(alarm_message_with_sound(e1, "stability"), e, "stability", "triggered")

\* the trigger branch of check_temperature_stability_signal
TriggerStability(e) ==
    LET e1 == [e EXCEPT !.triggered["stability"] = TRUE,
                        !.monitoring_active["stability"] = FALSE]
    IN Report(alarm_message_with_sound(e1, "stability"), e, "stability", "triggered")

check_temperature_stability_signal(c, e) ==
    LET term_k_str == c.all_latest_values["term_k"]
        delta_t_threshold == c.settings["delta_t"]
        period_seconds_threshold == c.settings["period_seconds"]
        start_time == c.now - period_seconds_threshold
        k_data_window == get_windowed_data(c.timestamps["term_k"], c.data["term_k"], start_time)
        c_data_window == get_windowed_data(c.timestamps["term_c"], c.data["term_c"], start_time)
        num_pairs == Min2(Len(k_data_window), Len(c_data_window))
        k_recent == LastN(k_data_window, num_pairs)
        c_recent == LastN(c_data_window, num_pairs)
        dts_in_window == ZipDiff(k_recent, c_recent)
        variation == ListMax(dts_in_window) - ListMin(dts_in_window)
    IN
    IF e.raised THEN e
    ELSE IF ~e.monitoring_active["stability"] THEN Report(e, e, "stability", "disabled")
    ELSE IF ~ParsesAsFloat(term_k_str) THEN Report(e, e, "stability", "waiting")
    ELSE IF StabilityGated(term_k_str.value) THEN Report(e, e, "stability", "gated")
    ELSE IF TooFewPairs(num_pairs)
         THEN Locals(Report(e, e, "stability", "insufficient"),
                     k_data_window, c_data_window, <<>>)
    ELSE IF StabilityReached(variation, delta_t_threshold)
         THEN Locals(TriggerStability(e),
                     k_data_window, c_data_window, dts_in_window)
    ELSE Locals(Report(e, e, "stability", "monitoring"),
                k_data_window, c_data_window, dts_in_window)

check_signal_conditions_unless_stale(c, e) ==
    IF mqtt_data_timeout_alarm_active THEN e
    ELSE check_temperature_stability_signal(c,
             check_t_deflegmator_signal(c,
                 check_t_kub_signal(c, e)))

check_signal_conditions(c, e) ==
    check_temperature_stability_signal(c,
        check_t_deflegmator_signal(c,
            check_t_kub_signal(c, e)))

Rearm_keepsTriggered(e, sig) ==
    [e EXCEPT !.monitoring_active[sig] = TRUE]

\* the two assignments of a reset_* method
Rearm(e, sig) ==
    [e EXCEPT !.monitoring_active[sig] = TRUE, !.triggered[sig] = FALSE]

reset_t_kub_signal_rearms_stability(c, e) ==
    IF e.raised THEN e
    ELSE check_signal_conditions(c, Rearm(Rearm(e, "t_kub"), "stability"))

reset_t_kub_signal(c, e) ==
    IF e.raised THEN e ELSE check_signal_conditions(c, Rearm(e, "t_kub"))

reset_t_deflegmator_signal(c, e) ==
    IF e.raised THEN e ELSE check_signal_conditions(c, Rearm(e, "t_deflegmator"))

reset_stability_signal(c, e) ==
    IF e.raised THEN e ELSE check_signal_conditions(c, Rearm(e, "stability"))

\* update_text_displays: float() of a latest value that is not a number raises
update_text_displays(c, e) ==
    IF e.raised THEN e
    ELSE IF \E t \in text_display_topics \cap DOMAIN c.all_latest_values :
                c.all_latest_values[t].kind = "text"
         THEN [e EXCEPT !.raised = TRUE]
         ELSE e

----------------------------------------------------------------------------
(* Handlers *)

\* what an evaluation reads, taken from the current state
Context == [settings |-> settings, all_latest_values |-> all_latest_values,
            data |-> data, timestamps |-> timestamps, now |-> now]

\* the evaluation state a handler starts from
Entry == [monitoring_active |-> monitoring_active, triggered |-> triggered,
          evals |-> <<>>, alarms |-> <<>>, raised |-> FALSE,
          dialogs |-> alarm_dialogs]

\* found holds the settings and flags the last evaluating handler started
\* from; NotFound is its value after any other step
NotFound == [settings |-> DefaultSettings,
             monitoring_active |-> [s \in Signals |-> TRUE],
             triggered |-> [s \in Signals |-> FALSE]]

\* the end of a slot.  No sys.excepthook is installed, so an exception that
\* leaves a slot makes PyQt5 call qFatal(), which aborts the process
Leave(op, e) ==
    /\ found' = [settings |-> settings, monitoring_active |-> monitoring_active,
                 triggered |-> triggered]
    /\ monitoring_active' = e.monitoring_active
    /\ triggered' = e.triggered
    /\ evals' = e.evals
    /\ alarms' = e.alarms
    /\ raised' = e.raised
    /\ alarm_dialogs' = e.dialogs
    /\ lastOp' = op
    /\ halted' = e.raised

\* the main window as AlcoEspMonitor.__init__ leaves it
AlcoEspMonitor_init ==
    /\ settings = DefaultSettings
    /\ all_latest_values = [t \in Topics |-> None]
    /\ data = [t \in chart_temperature_topics |-> <<>>]
    /\ timestamps = [t \in chart_temperature_topics |-> <<>>]
    /\ monitoring_active = [s \in Signals |-> TRUE]
    /\ triggered = [s \in Signals |-> FALSE]
    /\ last_mqtt_message_time = NoTime
    /\ mqtt_data_timeout_alarm_active = FALSE
    /\ mqtt_thread_running = TRUE
    /\ mqtt_thread_deleted = FALSE
    /\ now = 0
    /\ halted = FALSE
    /\ handled = 0
    /\ queue = <<>>
    /\ emitted = <<>>
    /\ alarm_dialogs = <<>>
    /\ spinbox = [w \in SpinBoxes |-> 0]
    /\ publishRequested = <<>>
    /\ lastOp = "init"
    /\ found = NotFound
    /\ evals = <<>>
    /\ alarms = <<>>
    /\ raised = FALSE

\* MqttWorker.__init__: self.client = None
MqttWorker_init ==
    /\ client = "None"
    /\ subscriptions = <<>>
    /\ publishing = <<>>
    /\ out_messages = <<>>
    /\ published = <<>>
    /\ connectionStatus = "none"
    /\ msg_topic = <<>>

\* WorkState: STOP .. OTBOR_PODGOLOVNIKOV
WorkStates == 0..10
STOP == 0

\* WORK_STATE_NAMES.get(mode, f"Unknown({mode})"): the eleven names are
\* distinct texts, written here as the table's entry for the code
WorkStateName(mode) ==
    IF mode \in WorkStates THEN <<"WORK_STATE_NAMES", mode>>
    ELSE <<"Unknown", mode>>

\* the payloads of the commands: the text of an integer, of a decimal
\* number (in tenths), "nan", and a text that is no number
IntText(n) == [kind |-> "int", value |-> n]
FloatText(tenths) == [kind |-> "float", value |-> tenths]
NanText == [kind |-> "nan", value |-> 0]

\* float("nan"), which differs from every float, itself included
NaN == -9999

\* int(payload) raises ValueError
IntRaises(payload) == payload.kind # "int"

FloatRaises_never(payload) == FALSE

\* float(payload) raises ValueError
FloatRaises(payload) == payload.kind \notin {"int", "float", "nan"}

\* float(payload), in tenths
Float(payload) ==
    IF payload.kind = "nan" THEN NaN
    ELSE IF payload.kind = "int" THEN 10 * payload.value
    ELSE payload.value

\* a != b for two numbers
NotEqual(a, b) == a = NaN \/ b = NaN \/ a # b

\* the keys of device_state that are modelled, in the order of the dict
\* (numbers in tenths, except the code in "work")
DeviceKeys == <<"term_k", "flag_otb", "otbor_g_1", "term_k_m", "work">>

\* device_emulator.py at start: device_state, the network thread outside
\* on_message, the main thread about to run simulate_device_changes
device_emulator_init ==
    /\ device_state = [term_k |-> 590, flag_otb |-> WorkStateName(STOP),
                       otbor_g_1 |-> 150, term_k_m |-> 1000, work |-> STOP]
    /\ requested_work_mode = STOP
    /\ on_message_pc = "idle"
    /\ main_pc = 0
    /\ device_published = <<>>
    /\ command = <<>>

\* the keys of device_state of alco_esp_device_emulator.py that are
\* modelled, in the order of the dict
AlcoKeys == <<"term_k", "otbor_g_1", "work">>

\* alco_esp_device_emulator.py at start
alco_esp_device_emulator_init ==
    /\ alco_device_state = [term_k |-> 590, otbor_g_1 |-> 150, work |-> STOP]
    /\ alco_main_pc = 0
    /\ alco_sent = <<>>
    /\ alco_inbox = <<>>
    /\ alco_command = <<>>

\* the application after construction, the worker thread not yet run
Init ==
    /\ AlcoEspMonitor_init
    /\ MqttWorker_init
    /\ device_emulator_init
    /\ alco_esp_device_emulator_init

\* datetime.now() returns a value d seconds later than before
clock_advances(d) ==
    /\ ~halted
    /\ now' = now + d
    /\ lastOp' = "advance"
    /\ found' = NotFound
    /\ evals' = <<>>
    /\ alarms' = <<>>
    /\ raised' = FALSE
    /\ UNCHANGED <<settings, all_latest_values, data, timestamps,
                   monitoring_active, triggered, last_mqtt_message_time,
                   mqtt_data_timeout_alarm_active, mqtt_thread_running,
                   mqtt_thread_deleted, halted, handled, queue, emitted,
                   alarm_dialogs, spinbox, restVars, publishRequested>>

\* the wall clock advances
AdvanceTime(d) ==
    /\ now + d <= MaxTime
    /\ clock_advances(d)

watchdogAdvanceTime(d) ==
    /\ now + d <= MaxWatchdogTime
    /\ clock_advances(d)

windowAdvanceTime(d) ==
    /\ now + d <= MaxWindowTime
    /\ clock_advances(d)

handle_message_stamps_first(topic, payload_str) ==
    /\ ~halted
    /\ mqtt_thread_running
    /\ handled' = handled + 1
    /\ last_mqtt_message_time' = now
    /\ mqtt_data_timeout_alarm_active' = FALSE
    /\ all_latest_values' = [all_latest_values EXCEPT ![topic] = payload_str]
    /\ IF topic \in chart_temperature_topics
       THEN /\ timestamps' = [timestamps EXCEPT ![topic] = DequeAppend(@, now)]
            /\ IF ParsesAsFloat(payload_str)
               THEN data' = [data EXCEPT ![topic] = DequeAppend(@, payload_str.value)]
               ELSE UNCHANGED data
       ELSE UNCHANGED <<data, timestamps>>
    /\ lastOp' = "handle_message"
    /\ found' = NotFound
    /\ evals' = <<>>
    /\ alarms' = <<>>
    /\ raised' = FALSE
    /\ UNCHANGED <<settings, monitoring_active, triggered,
                   mqtt_thread_running, mqtt_thread_deleted, now, halted,
                   alarm_dialogs, spinbox, restVars, publishRequested>>

handle_message_skips_malformed(topic, payload_str) ==
    /\ ~halted
    /\ mqtt_thread_running
    /\ handled' = handled + 1
    /\ last_mqtt_message_time' = now
    /\ mqtt_data_timeout_alarm_active' = FALSE
    /\ IF topic \in chart_temperature_topics /\ ParsesAsFloat(payload_str)
       THEN /\ all_latest_values' = [all_latest_values EXCEPT ![topic] = payload_str]
            /\ data' = [data EXCEPT ![topic] = DequeAppend(@, payload_str.value)]
            /\ timestamps' = [timestamps EXCEPT ![topic] = DequeAppend(@, now)]
       ELSE UNCHANGED <<all_latest_values, data, timestamps>>
    /\ lastOp' = "handle_message"
    /\ found' = NotFound
    /\ evals' = <<>>
    /\ alarms' = <<>>
    /\ raised' = FALSE
    /\ UNCHANGED <<settings, monitoring_active, triggered,
                   mqtt_thread_running, mqtt_thread_deleted, now, halted,
                   alarm_dialogs, spinbox, restVars, publishRequested>>

handle_message_evaluates(topic, payload_str) ==
    /\ ~halted
    /\ mqtt_thread_running
    /\ handled' = handled + 1
    /\ last_mqtt_message_time' = now
    /\ mqtt_data_timeout_alarm_active' = FALSE
    /\ all_latest_values' = [all_latest_values EXCEPT ![topic] = payload_str]
    /\ IF topic \in chart_temperature_topics /\ ParsesAsFloat(payload_str)
       THEN /\ data' = [data EXCEPT ![topic] = DequeAppend(@, payload_str.value)]
            /\ timestamps' = [timestamps EXCEPT ![topic] = DequeAppend(@, now)]
       ELSE UNCHANGED <<data, timestamps>>
    /\ LET c == [Context EXCEPT
                    !.all_latest_values = [all_latest_values EXCEPT ![topic] = payload_str]]
           e == check_t_kub_signal(c, Entry)
       IN /\ monitoring_active' = e.monitoring_active
          /\ triggered' = e.triggered
    /\ lastOp' = "handle_message"
    /\ found' = NotFound
    /\ evals' = <<>>
    /\ alarms' = <<>>
    /\ raised' = FALSE
    /\ UNCHANGED <<settings, mqtt_thread_running, mqtt_thread_deleted, now,
                   halted, alarm_dialogs, spinbox, restVars, publishRequested>>

handle_message(topic, payload_str) ==
    /\ ~halted
    /\ mqtt_thread_running
    /\ handled' = handled + 1
    /\ last_mqtt_message_time' = now
    /\ mqtt_data_timeout_alarm_active' = FALSE
    /\ all_latest_values' = [all_latest_values EXCEPT ![topic] = payload_str]
    /\ IF topic \in chart_temperature_topics /\ ParsesAsFloat(payload_str)
       THEN /\ data' = [data EXCEPT ![topic] = DequeAppend(@, payload_str.value)]
            /\ timestamps' = [timestamps EXCEPT ![topic] = DequeAppend(@, now)]
       ELSE UNCHANGED <<data, timestamps>>
    /\ lastOp' = "handle_message"
    /\ found' = NotFound
    /\ evals' = <<>>
    /\ alarms' = <<>>
    /\ raised' = FALSE
    /\ UNCHANGED <<settings, monitoring_active, triggered,
                   mqtt_thread_running, mqtt_thread_deleted, now, halted,
                   alarm_dialogs, spinbox, restVars, publishRequested>>

TimeoutFires_ignores_thread ==
    /\ last_mqtt_message_time # NoTime
    /\ now - last_mqtt_message_time > MQTT_DATA_TIMEOUT_SECONDS
    /\ ~mqtt_data_timeout_alarm_active

TimeoutFires_inclusive ==
    /\ last_mqtt_message_time # NoTime
    /\ now - last_mqtt_message_time >= MQTT_DATA_TIMEOUT_SECONDS
    /\ ~mqtt_data_timeout_alarm_active
    /\ mqtt_thread_running

\* check_mqtt_data_timeout
TimeoutFires ==
    /\ last_mqtt_message_time # NoTime
    /\ now - last_mqtt_message_time > MQTT_DATA_TIMEOUT_SECONDS
    /\ ~mqtt_data_timeout_alarm_active
    /\ mqtt_thread_running

\* mqtt_thread.finished is connected to mqtt_thread.deleteLater: once the
\* QThread is deleted, self.mqtt_thread.isRunning() raises RuntimeError.  The
\* call is reached only after the three conditions before it
IsRunningRaises ==
    /\ last_mqtt_message_time # NoTime
    /\ now - last_mqtt_message_time > MQTT_DATA_TIMEOUT_SECONDS
    /\ ~mqtt_data_timeout_alarm_active
    /\ mqtt_thread_deleted

check_mqtt_data_timeout(e) ==
    IF e.raised THEN e
    ELSE IF IsRunningRaises THEN [e EXCEPT !.raised = TRUE]
    ELSE IF TimeoutFires THEN alarm_message_with_sound(e, "mqtt_timeout")
    ELSE e

\* the plot_timer slot
update_plots_and_signals ==
    /\ ~halted
    /\ LET e1 == update_text_displays(Context, Entry)
           e2 == check_signal_conditions(Context, e1)
           e3 == check_mqtt_data_timeout(e2)
       IN /\ Leave("tick", e3)
          /\ mqtt_data_timeout_alarm_active' =
                IF ~e2.raised /\ TimeoutFires THEN TRUE
                ELSE mqtt_data_timeout_alarm_active
    /\ UNCHANGED <<settings, all_latest_values, data, timestamps,
                   last_mqtt_message_time, mqtt_thread_running,
                   mqtt_thread_deleted, now, handled, queue, emitted,
                   spinbox, restVars, publishRequested>>

\* the three reset buttons
ResetButton(sig) ==
    /\ ~halted
    /\ LET e == CASE sig = "t_kub" -> reset_t_kub_signal(Context, Entry)
                  [] sig = "t_deflegmator" -> reset_t_deflegmator_signal(Context, Entry)
                  [] OTHER -> reset_stability_signal(Context, Entry)
       IN Leave("reset_" \o sig, e)
    /\ UNCHANGED <<settings, all_latest_values, data, timestamps,
                   last_mqtt_message_time, mqtt_data_timeout_alarm_active,
                   mqtt_thread_running, mqtt_thread_deleted, now, handled,
                   queue, emitted, spinbox, restVars, publishRequested>>

open_settings_dialog_keeps_stability(new_settings) ==
    /\ ~halted
    /\ settings' = new_settings
    /\ LET c == [Context EXCEPT !.settings = new_settings]
           e1 == IF settings["t_signal_kub"] # new_settings["t_signal_kub"]
                 THEN reset_t_kub_signal(c, Entry) ELSE Entry
           e2 == IF settings["t_signal_deflegmator"] # new_settings["t_signal_deflegmator"]
                 THEN reset_t_deflegmator_signal(c, e1) ELSE e1
       IN Leave("settings", check_signal_conditions(c, e2))
    /\ UNCHANGED <<all_latest_values, data, timestamps,
                   last_mqtt_message_time, mqtt_data_timeout_alarm_active,
                   mqtt_thread_running, mqtt_thread_deleted, now, handled,
                   queue, emitted, spinbox, restVars, publishRequested>>

open_settings_dialog_resets_all(new_settings) ==
    /\ ~halted
    /\ settings' = new_settings
    /\ LET c == [Context EXCEPT !.settings = new_settings]
           e1 == IF settings # new_settings
                 THEN reset_stability_signal(c,
                          reset_t_deflegmator_signal(c,
                              reset_t_kub_signal(c, Entry)))
                 ELSE Entry
       IN Leave("settings", check_signal_conditions(c, e1))
    /\ UNCHANGED <<all_latest_values, data, timestamps,
                   last_mqtt_message_time, mqtt_data_timeout_alarm_active,
                   mqtt_thread_running, mqtt_thread_deleted, now, handled,
                   queue, emitted, spinbox, restVars, publishRequested>>

\* open_settings_dialog, the dialog accepted with new_settings
open_settings_dialog(new_settings) ==
    /\ ~halted
    /\ settings' = new_settings
    /\ LET c == [Context EXCEPT !.settings = new_settings]
           t_kub_setting_changed ==
               settings["t_signal_kub"] # new_settings["t_signal_kub"]
           t_deflegmator_setting_changed ==
               settings["t_signal_deflegmator"] # new_settings["t_signal_deflegmator"]
           stability_settings_changed ==
               \/ settings["delta_t"] # new_settings["delta_t"]
               \/ settings["period_seconds"] # new_settings["period_seconds"]
           e1 == IF t_kub_setting_changed
                 THEN reset_t_kub_signal(c, Entry) ELSE Entry
           e2 == IF t_deflegmator_setting_changed
                 THEN reset_t_deflegmator_signal(c, e1) ELSE e1
           e3 == IF stability_settings_changed
                 THEN reset_stability_signal(c, e2) ELSE e2
           e4 == check_signal_conditions(c, e3)
       IN Leave("settings", e4)
    /\ UNCHANGED <<all_latest_values, data, timestamps,
                   last_mqtt_message_time, mqtt_data_timeout_alarm_active,
                   mqtt_thread_running, mqtt_thread_deleted, now, handled,
                   queue, emitted, spinbox, restVars, publishRequested>>

\* MqttWorker.on_message emits messageReceived, which runs handle_message
messageReceived(topic, payload) ==
    /\ handled < MaxMessages
    /\ handle_message(topic, payload)
    /\ UNCHANGED <<queue, emitted>>

\* the same for the runs that feed the series of the stability example
exampleMessageReceived(topic, payload) ==
    /\ handled < MaxStabilityMessages
    /\ handle_message(topic, payload)
    /\ UNCHANGED <<queue, emitted>>

\* the same for the runs that fill the windows under an advancing clock
windowMessageReceived(topic, payload) ==
    /\ handled < MaxWindowMessages
    /\ handle_message(topic, payload)
    /\ UNCHANGED <<queue, emitted>>

\* the same for the runs that change one setting at a time
settingsMessageReceived(topic, payload) ==
    /\ handled < MaxSettingsMessages
    /\ handle_message(topic, payload)
    /\ UNCHANGED <<queue, emitted>>

\* the same for the runs with silences around the timeout
watchdogMessageReceived(topic, payload) ==
    /\ handled < MaxWatchdogMessages
    /\ handle_message(topic, payload)
    /\ UNCHANGED <<queue, emitted>>

\* MqttWorker.on_message runs in the network thread: the emission of
\* messageReceived posts the call of handle_message to the GUI thread
on_message(topic, payload) ==
    /\ ~halted
    /\ mqtt_thread_running
    /\ client = "connected"
    /\ Copies(FullTopic(topic)) > 0
    /\ Len(emitted) < MaxEmitted
    /\ msg_topic' = FullTopic(topic)
    /\ queue' = Append(queue, Message(topic, payload))
    /\ emitted' = Append(emitted, Message(topic, payload))
    /\ lastOp' = "on_message"
    /\ found' = NotFound
    /\ evals' = <<>>
    /\ alarms' = <<>>
    /\ raised' = FALSE
    /\ UNCHANGED <<settings, all_latest_values, data, timestamps,
                   monitoring_active, triggered, last_mqtt_message_time,
                   mqtt_data_timeout_alarm_active, mqtt_thread_running,
                   mqtt_thread_deleted, now, halted, handled,
                   alarm_dialogs, spinbox, workerVars, publishRequested,
                   emulatorVars, alcoVars>>

NextEvent_last(q) == q[Len(q)]

\* the posted call the GUI thread's event loop takes next
NextEvent(q) == Head(q)

\* the GUI thread runs the posted call of handle_message
queuedMessageDelivered ==
    /\ queue # <<>>
    /\ handle_message(NextEvent(queue).topic, NextEvent(queue).payload)
    /\ queue' = Tail(queue)
    /\ UNCHANGED emitted

\* no handler ran: the history of the last evaluation is cleared
NoEvaluation(op) ==
    /\ lastOp' = op
    /\ found' = NotFound
    /\ evals' = <<>>
    /\ alarms' = <<>>
    /\ raised' = FALSE

\* the operator edits one of the three spin boxes of "Отбор тела"
setValue(w, v) ==
    /\ ~halted
    /\ spinbox' = [spinbox EXCEPT ![w] = v]
    /\ NoEvaluation("setValue")
    /\ UNCHANGED <<settings, all_latest_values, data, timestamps,
                   monitoring_active, triggered, last_mqtt_message_time,
                   mqtt_data_timeout_alarm_active, mqtt_thread_running,
                   mqtt_thread_deleted, now, halted, handled, queue, emitted,
                   alarm_dialogs, publishRequested, restVars>>

InvalidLimits_strict(t_start, t_stop) == t_start > t_stop

\* if t_start >= t_stop
InvalidLimits(t_start, t_stop) == t_start >= t_stop

\* publish_otbor_t_params.  str() of the two floats and of the int yields
\* strings that float() parses back to the same numbers
publish_otbor_t_params ==
    /\ ~halted
    /\ Len(publishRequested) + 3 <= MaxPublishRequested
    /\ LET t_stop == spinbox["term_c_max_telo"]
           t_start == spinbox["term_c_min_telo"]
           pwm_val == spinbox["otbor_t"]
       IN publishRequested' =
             IF InvalidLimits(t_start, t_stop) THEN publishRequested
             ELSE publishRequested \o
                  << Message(control_topics["term_c_max_new"], Number(t_stop)),
                     Message(control_topics["term_c_min_new"], Number(t_start)),
                     Message(control_topics["otbor_t_new"], Number(pwm_val)) >>
    /\ NoEvaluation("publish_otbor_t_params")
    /\ UNCHANGED <<settings, all_latest_values, data, timestamps,
                   monitoring_active, triggered, last_mqtt_message_time,
                   mqtt_data_timeout_alarm_active, mqtt_thread_running,
                   mqtt_thread_deleted, now, halted, handled, queue, emitted,
                   alarm_dialogs, spinbox, restVars>>

publish_message_unchecked ==
    /\ ~halted
    /\ mqtt_thread_running
    /\ publishRequested # <<>>
    /\ publishing = <<>>
    /\ Len(published) + Len(out_messages) < MaxPublished
    /\ publishRequested' = Tail(publishRequested)
    /\ publishing' = <<Message(FullTopic(Head(publishRequested).topic),
                               Head(publishRequested).payload)>>
    /\ connectionStatus' = IF client = "connected" THEN "publishing"
                           ELSE "no_connection"
    /\ NoEvaluation("publish_message")
    /\ UNCHANGED <<settings, all_latest_values, data, timestamps,
                   monitoring_active, triggered, last_mqtt_message_time,
                   mqtt_data_timeout_alarm_active, mqtt_thread_running,
                   mqtt_thread_deleted, now, halted, handled, queue, emitted,
                   alarm_dialogs, spinbox>>
    /\ UNCHANGED <<client, subscriptions, out_messages, published, msg_topic,
                   emulatorVars, alcoVars>>

\* MqttWorker.publish_message runs in the worker thread for the oldest
\* emission of publishRequested, up to the call of client.publish: without
\* a connected client it only emits "Ошибка публикации: нет подключения"
publish_message ==
    /\ ~halted
    /\ mqtt_thread_running
    /\ publishRequested # <<>>
    /\ publishing = <<>>
    /\ Len(published) + Len(out_messages) < MaxPublished
    /\ publishRequested' = Tail(publishRequested)
    /\ IF client = "connected"
       THEN /\ publishing' = <<Message(FullTopic(Head(publishRequested).topic),
                                       Head(publishRequested).payload)>>
            /\ connectionStatus' = "publishing"
       ELSE /\ publishing' = <<>>
            /\ connectionStatus' = "no_connection"
    /\ NoEvaluation("publish_message")
    /\ UNCHANGED <<settings, all_latest_values, data, timestamps,
                   monitoring_active, triggered, last_mqtt_message_time,
                   mqtt_data_timeout_alarm_active, mqtt_thread_running,
                   mqtt_thread_deleted, now, halted, handled, queue, emitted,
                   alarm_dialogs, spinbox>>
    /\ UNCHANGED <<client, subscriptions, out_messages, published, msg_topic,
                   emulatorVars, alcoVars>>

\* rc, mid = self.client.publish(full_topic, payload=payload, qos=1) and
\* the status that follows.  The network thread may have lost the
\* connection since is_connected() was read: the client then returns
\* MQTT_ERR_NO_CONN and keeps the message of qos 1 for the next connection
publish ==
    /\ ~halted
    /\ publishing # <<>>
    /\ publishing' = <<>>
    /\ IF client = "connected"
       THEN /\ published' = Append(published, publishing[1])
            /\ connectionStatus' = "published"
            /\ UNCHANGED out_messages
       ELSE /\ out_messages' = Append(out_messages, publishing[1])
            /\ connectionStatus' = "publish_error"
            /\ UNCHANGED published
    /\ NoEvaluation("publish")
    /\ UNCHANGED <<outsideWorker, client, subscriptions>>

\* MqttWorker.run up to loop_start(): the client exists and its network
\* thread is connecting
run ==
    /\ ~halted
    /\ mqtt_thread_running
    /\ client = "None"
    /\ client' = "disconnected"
    /\ connectionStatus' = "connecting"
    /\ NoEvaluation("run")
    /\ UNCHANGED <<outsideWorker, subscriptions, publishing, out_messages, published>>

\* the answers of the broker to a connection request: accepted, refused
ConnectCodes == {0, 5}

OnConnectSubscribed_with_topic(rc, subs) ==
    IF rc = 0 THEN subs \o <<wildcard_topic, FullTopic("term_k")>> ELSE subs

\* the filters subscribed once on_connect has returned:
\* client.subscribe(wildcard_topic, qos=0) if rc == 0
OnConnectSubscribed(rc, subs) ==
    IF rc = 0 THEN Append(subs, wildcard_topic) ELSE subs

\* MqttWorker.on_connect, called by the network thread for the broker's
\* answer to each connection request, the automatic ones included.  With
\* rc = 0 the client is connected and sends what it kept
on_connect(rc) ==
    /\ ~halted
    /\ mqtt_thread_running
    /\ client = "disconnected"
    /\ client' = IF rc = 0 THEN "connected" ELSE "disconnected"
    /\ connectionStatus' = IF rc = 0 THEN "connected" ELSE "connect_error"
    /\ subscriptions' = OnConnectSubscribed(rc, subscriptions)
    /\ published' = IF rc = 0 THEN published \o out_messages ELSE published
    /\ out_messages' = IF rc = 0 THEN <<>> ELSE out_messages
    /\ NoEvaluation("on_connect")
    /\ UNCHANGED <<outsideWorker, publishing>>

\* MqttWorker.on_disconnect for a connection lost (rc != 0): the session
\* is clean, the broker forgets its subscriptions, and the network thread
\* will ask for a new connection
on_disconnect ==
    /\ ~halted
    /\ mqtt_thread_running
    /\ client = "connected"
    /\ client' = "disconnected"
    /\ subscriptions' = <<>>
    /\ connectionStatus' = "reconnecting"
    /\ NoEvaluation("on_disconnect")
    /\ UNCHANGED <<outsideWorker, publishing, out_messages, published>>

\* the pieces of text of a topic a device may publish
TopicPieces == {username, "/", "a"}

\* the texts of up to n pieces
Texts(n) == UNION {[1..k -> TopicPieces] : k \in 0..n}

\* MqttWorker.on_message for a publication under any topic the wildcard
\* matches: the key it computes is emitted with the payload
on_message_any(topic, payload) ==
    /\ ~halted
    /\ mqtt_thread_running
    /\ client = "connected"
    /\ Copies(topic) > 0
    /\ Len(emitted) < MaxTopicMessages
    /\ msg_topic' = topic
    /\ queue' = Append(queue, Message(TopicKey(topic), payload))
    /\ emitted' = Append(emitted, Message(TopicKey(topic), payload))
    /\ NoEvaluation("on_message")
    /\ UNCHANGED <<settings, all_latest_values, data, timestamps,
                   monitoring_active, triggered, last_mqtt_message_time,
                   mqtt_data_timeout_alarm_active, mqtt_thread_running,
                   mqtt_thread_deleted, now, halted, handled,
                   alarm_dialogs, spinbox, publishRequested, workerVars,
                   emulatorVars, alcoVars>>

\* the name of a topic that is one piece of text
TopicName(key) == CHOOSE topic \in Topics : <<topic>> = key

\* the broker forwards one publication of the device and the network
\* thread calls MqttWorker.on_message for each copy
forward(topic, payload) ==
    /\ ~halted
    /\ mqtt_thread_running
    /\ client = "connected"
    /\ Len(emitted) + Copies(topic) <= MaxEmitted
    /\ msg_topic' = topic
    /\ LET message == Message(TopicName(TopicKey(topic)), payload)
           copies == [i \in 1..Copies(topic) |-> message]
       IN /\ queue' = queue \o copies
          /\ emitted' = emitted \o copies
    /\ NoEvaluation("forward")
    /\ UNCHANGED <<settings, all_latest_values, data, timestamps,
                   monitoring_active, triggered, last_mqtt_message_time,
                   mqtt_data_timeout_alarm_active, mqtt_thread_running,
                   mqtt_thread_deleted, now, halted, handled,
                   alarm_dialogs, spinbox, publishRequested, workerVars,
                   emulatorVars, alcoVars>>

\* an AlarmNotificationDialog is modal: while one is visible the main
\* window takes no input
AlarmDialogVisible ==
    \E i \in 1..Len(alarm_dialogs) : alarm_dialogs[i].visible

accept_resets_signals ==
    /\ ~halted
    /\ AlarmDialogVisible
    /\ alarm_dialogs' = [alarm_dialogs EXCEPT ![Len(alarm_dialogs)].visible = FALSE]
    /\ monitoring_active' = [s \in Signals |-> TRUE]
    /\ triggered' = [s \in Signals |-> FALSE]
    /\ NoEvaluation("accept")
    /\ UNCHANGED <<settings, all_latest_values, data, timestamps,
                   last_mqtt_message_time,
                   mqtt_data_timeout_alarm_active, mqtt_thread_running,
                   mqtt_thread_deleted, now, halted, handled, queue, emitted,
                   spinbox, restVars, publishRequested>>

\* AlarmNotificationDialog.accept and closeEvent: the operator dismisses
\* the dialog with its button or closes its window
accept ==
    /\ ~halted
    /\ AlarmDialogVisible
    /\ alarm_dialogs' = [alarm_dialogs EXCEPT ![Len(alarm_dialogs)].visible = FALSE]
    /\ NoEvaluation("accept")
    /\ UNCHANGED <<settings, all_latest_values, data, timestamps,
                   monitoring_active, triggered, last_mqtt_message_time,
                   mqtt_data_timeout_alarm_active, mqtt_thread_running,
                   mqtt_thread_deleted, now, halted, handled, queue, emitted,
                   spinbox, restVars, publishRequested>>

\* a reset button pressed; the main window takes the click only while no
\* alarm dialog is visible
resetButtonClicked(sig) ==
    /\ ~AlarmDialogVisible
    /\ ResetButton(sig)

\* MqttWorker.run: connect() raises, finished is emitted and mqtt_thread
\* quits; no Paho loop was started, so no message ever arrives
run_connection_fails ==
    /\ ~halted
    /\ mqtt_thread_running
    /\ last_mqtt_message_time = NoTime
    /\ queue = <<>>
    /\ client = "None"
    /\ mqtt_thread_running' = FALSE
    /\ client' = "disconnected"
    /\ connectionStatus' = "connect_error"
    /\ NoEvaluation("finished")
    /\ UNCHANGED <<settings, all_latest_values, data, timestamps,
                   monitoring_active, triggered, last_mqtt_message_time,
                   mqtt_data_timeout_alarm_active,
                   mqtt_thread_deleted, now, halted, handled, queue, emitted,
                   alarm_dialogs, spinbox, publishRequested>>
    /\ UNCHANGED <<subscriptions, publishing, out_messages, published,
                   msg_topic, emulatorVars, alcoVars>>

\* perform_graceful_shutdown, from closeEvent or the SIGINT handler
perform_graceful_shutdown ==
    /\ ~halted
    /\ mqtt_thread_running' = FALSE
    /\ halted' = mqtt_thread_deleted
    /\ lastOp' = "shutdown"
    /\ found' = NotFound
    /\ evals' = <<>>
    /\ alarms' = <<>>
    /\ raised' = mqtt_thread_deleted
    /\ client' = IF mqtt_thread_running /\ client = "connected"
                 THEN "disconnected" ELSE client
    /\ subscriptions' = IF mqtt_thread_running /\ client = "connected"
                        THEN <<>> ELSE subscriptions
    /\ UNCHANGED <<settings, all_latest_values, data, timestamps,
                   monitoring_active, triggered, last_mqtt_message_time,
                   mqtt_data_timeout_alarm_active,
                   mqtt_thread_deleted, now, handled, queue, emitted,
                   alarm_dialogs, spinbox, publishRequested>>
    /\ UNCHANGED <<publishing, out_messages, published, connectionStatus,
                   msg_topic, emulatorVars, alcoVars>>

\* the GUI thread runs the deferred deletion of the finished mqtt_thread
deleteLater ==
    /\ ~halted
    /\ ~mqtt_thread_running
    /\ ~mqtt_thread_deleted
    /\ mqtt_thread_deleted' = TRUE
    /\ NoEvaluation("deleteLater")
    /\ UNCHANGED <<settings, all_latest_values, data, timestamps,
                   monitoring_active, triggered, last_mqtt_message_time,
                   mqtt_data_timeout_alarm_active, mqtt_thread_running,
                   now, halted, handled, queue, emitted,
                   alarm_dialogs, spinbox, restVars, publishRequested>>

alarmAdvanceTime(d) ==
    /\ now + d <= MaxAlarmTime
    /\ clock_advances(d)

\* messageReceived for the runs with alarm dialogs and a stopping thread
alarmMessageReceived(topic, payload) ==
    /\ handled < MaxAlarmMessages
    /\ handle_message(topic, payload)
    /\ UNCHANGED <<queue, emitted>>

Next ==
    \/ \E d \in TimeSteps : AdvanceTime(d)
    \/ \E topic \in Topics : \E p \in Payloads(topic) : messageReceived(topic, p)
    \/ update_plots_and_signals
    \/ \E sig \in Signals : ResetButton(sig)
    \/ \E s \in SettingsChoices : open_settings_dialog(s)

Spec == Init /\ [][Next]_vars

\* the same program fed with the two series of the stability example
NextStability ==
    \/ \E topic \in {"term_k", "term_c"} : \E p \in StabilityPayloads(topic) :
          exampleMessageReceived(topic, p)
    \/ update_plots_and_signals
    \/ \E sig \in Signals : ResetButton(sig)
    \/ \E s \in StabilitySettingsChoices : open_settings_dialog(s)

SpecStability == Init /\ [][NextStability]_vars

\* the same program with the clock advancing second by second, fed with
\* samples of term_k and term_c, a malformed term_k and an untracked topic
NextWindow ==
    \/ \E d \in WindowTimeSteps : windowAdvanceTime(d)
    \/ \E topic \in Topics : \E p \in WindowPayloads(topic) :
          windowMessageReceived(topic, p)
    \/ update_plots_and_signals
    \/ \E s \in WindowSettingsChoices : open_settings_dialog(s)

SpecWindow == Init /\ [][NextWindow]_vars

\* the same program with settings updates that change one parameter
NextSettings ==
    \/ \E topic \in {"term_k", "term_c"} : \E p \in SettingsRunPayloads(topic) :
          settingsMessageReceived(topic, p)
    \/ update_plots_and_signals
    \/ \E s \in SettingsRunChoices : open_settings_dialog(s)

SpecSettings == Init /\ [][NextSettings]_vars

\* the same program with silences shorter and longer than the timeout; the
\* plot_timer fires every two seconds, so a tick that is due is taken
NextWatchdog ==
    \/ \E d \in WatchdogTimeSteps : watchdogAdvanceTime(d)
    \/ \E topic \in Topics : \E p \in WatchdogPayloads(topic) :
          watchdogMessageReceived(topic, p)
    \/ update_plots_and_signals

\* the same program with the messages in flight between the two threads
NextQueue ==
    \/ run
    \/ \E rc \in ConnectCodes : on_connect(rc)
    \/ \E d \in TimeSteps : AdvanceTime(d)
    \/ \E topic \in {"term_k", "term_c"} : \E p \in QueuePayloads(topic) :
          on_message(topic, p)
    \/ queuedMessageDelivered
    \/ update_plots_and_signals
    \/ \E sig \in Signals : ResetButton(sig)

SpecQueue == Init /\ [][NextQueue]_vars

SpecWatchdog ==
    Init /\ [][NextWatchdog]_vars /\ WF_vars(update_plots_and_signals)

\* the same program with its alarm dialogs dismissed by the operator, the
\* reset buttons, silences around the timeout and the MQTT thread stopping
NextAlarm ==
    \/ \E d \in WatchdogTimeSteps : alarmAdvanceTime(d)
    \/ \E topic \in {"term_k", "term_d"} : \E p \in AlarmPayloads(topic) :
          alarmMessageReceived(topic, p)
    \/ update_plots_and_signals
    \/ \E sig \in Signals : resetButtonClicked(sig)
    \/ accept
    \/ run_connection_fails
    \/ perform_graceful_shutdown
    \/ deleteLater

SpecAlarm == Init /\ [][NextAlarm]_vars

\* the controls of "Отбор тела" and the worker that publishes the requests
NextPublish ==
    \/ \E w \in SpinBoxes : \E v \in SpinBoxValues(w) : setValue(w, v)
    \/ publish_otbor_t_params
    \/ publish_message

SpecPublish == Init /\ [][NextPublish]_vars

\* relative_topic.endswith(suffix)
EndsWith(s, suffix) ==
    /\ Len(s) >= Len(suffix)
    /\ SubSeq(s, Len(s) - Len(suffix) + 1, Len(s)) = suffix

\* base_topic in device_state, for a dict ds
Holds(ds, base_topic) ==
    /\ Len(base_topic) = 1
    /\ base_topic[1] \in DOMAIN ds

\* the branch `elif relative_topic.endswith("_new")` of both emulators
NewValue(ds, relative_topic, payload) ==
    LET base_topic == replace(relative_topic, <<"_new">>, <<>>)
    IN IF ~Holds(ds, base_topic) THEN ds
       ELSE IF FloatRaises(payload) THEN ds
       ELSE IF NotEqual(ds[base_topic[1]], Float(payload))
            THEN [ds EXCEPT ![base_topic[1]] = Float(payload)]
            ELSE ds

\* the branch `if relative_topic == "work"` of both emulators, up to the
\* assignment of device_state["work"]
NewWork(ds, payload) ==
    IF IntRaises(payload) THEN ds
    ELSE IF ds.work # payload.value
         THEN [ds EXCEPT !.work = payload.value]
         ELSE ds

\* device_emulator.py, on_message up to the point where flag_otb is about
\* to be assigned: the dict it leaves
Received(ds, topic, payload) ==
    LET relative_topic == replace(topic, topic_prefix, <<>>)
    IN IF relative_topic = <<"work">> THEN NewWork(ds, payload)
       ELSE IF relative_topic = <<"term_k_r">>
            THEN IF FloatRaises(payload) THEN ds
                 ELSE [ds EXCEPT !.term_k_m = Float(payload)]
       ELSE IF EndsWith(relative_topic, <<"_new">>)
            THEN NewValue(ds, relative_topic, payload)
       ELSE ds

\* on_message of device_emulator.py goes on to assign flag_otb
Syncs(ds, topic, payload) ==
    /\ replace(topic, topic_prefix, <<>>) = <<"work">>
    /\ Received(ds, topic, payload) # ds

SyncedFlag_keeps(ds, mode) == ds

\* device_state["flag_otb"] = WORK_STATE_NAMES.get(requested_work_mode,
\* f"Unknown({requested_work_mode})")
SyncedFlag(ds, mode) == [ds EXCEPT !.flag_otb = WorkStateName(mode)]

\* device_emulator.py, on_message from call to return
Commanded(ds, topic, payload) ==
    IF Syncs(ds, topic, payload)
    THEN SyncedFlag(Received(ds, topic, payload), payload.value)
    ELSE Received(ds, topic, payload)

\* the network thread calls on_message of device_emulator.py and runs it
\* up to the return or, for a new work mode, up to the assignment of
\* flag_otb, before which the main thread may run
device_on_message(topic, payload) ==
    /\ on_message_pc = "idle"
    /\ device_state' = Received(device_state, topic, payload)
    /\ command' = <<[topic |-> topic, payload |-> payload,
                     before |-> device_state]>>
    /\ IF Syncs(device_state, topic, payload)
       THEN /\ requested_work_mode' = payload.value
            /\ on_message_pc' = "flag_otb"
       ELSE UNCHANGED <<requested_work_mode, on_message_pc>>
    /\ NoEvaluation("device_on_message")
    /\ UNCHANGED <<settings, all_latest_values, data, timestamps,
                   monitoring_active, triggered, last_mqtt_message_time,
                   mqtt_data_timeout_alarm_active, mqtt_thread_running,
                   mqtt_thread_deleted, now, halted, handled, queue, emitted,
                   alarm_dialogs, spinbox, publishRequested, workerVars,
                   msg_topic, main_pc, device_published, alcoVars>>

\* on_message of device_emulator.py assigns flag_otb and returns
device_on_message_flag_otb ==
    /\ on_message_pc = "flag_otb"
    /\ device_state' = SyncedFlag(device_state, requested_work_mode)
    /\ on_message_pc' = "idle"
    /\ NoEvaluation("device_on_message")
    /\ UNCHANGED <<settings, all_latest_values, data, timestamps,
                   monitoring_active, triggered, last_mqtt_message_time,
                   mqtt_data_timeout_alarm_active, mqtt_thread_running,
                   mqtt_thread_deleted, now, halted, handled, queue, emitted,
                   alarm_dialogs, spinbox, publishRequested, workerVars,
                   msg_topic, requested_work_mode, main_pc, device_published,
                   command, alcoVars>>

\* the cube temperatures the simulation may reach, in tenths
SimulatedTemperatures == {590, 592}

\* simulate_device_changes of device_emulator.py, for the modelled keys:
\* term_k moves by a random amount
simulate_device_changes(term_k) ==
    /\ main_pc = 0
    /\ device_state' = [device_state EXCEPT !.term_k = term_k]
    /\ main_pc' = 1
    /\ NoEvaluation("simulate_device_changes")
    /\ UNCHANGED <<settings, all_latest_values, data, timestamps,
                   monitoring_active, triggered, last_mqtt_message_time,
                   mqtt_data_timeout_alarm_active, mqtt_thread_running,
                   mqtt_thread_deleted, now, halted, handled, queue, emitted,
                   alarm_dialogs, spinbox, publishRequested, workerVars,
                   msg_topic, requested_work_mode, on_message_pc,
                   device_published, command, alcoVars>>

\* what one turn of the publish loop of device_emulator.py hands to
\* client.publish: nothing for "work", else the key under the prefix with
\* str(value)
Published(key, value) ==
    IF key = "work" THEN <<>>
    ELSE <<[topic |-> topic_prefix \o <<key>>, payload |-> <<"str", value>>]>>

\* one turn of `for key, value in device_state.items()` in the main loop
\* of device_emulator.py; after the last key the loop sleeps
device_publish ==
    /\ main_pc \in 1..Len(DeviceKeys)
    /\ device_published' =
          Published(DeviceKeys[main_pc], device_state[DeviceKeys[main_pc]])
    /\ main_pc' = IF main_pc = Len(DeviceKeys) THEN 0 ELSE main_pc + 1
    /\ NoEvaluation("device_publish")
    /\ UNCHANGED <<settings, all_latest_values, data, timestamps,
                   monitoring_active, triggered, last_mqtt_message_time,
                   mqtt_data_timeout_alarm_active, mqtt_thread_running,
                   mqtt_thread_deleted, now, halted, handled, queue, emitted,
                   alarm_dialogs, spinbox, publishRequested, workerVars,
                   msg_topic, device_state, requested_work_mode,
                   on_message_pc, command, alcoVars>>

\* the topics device_emulator.py subscribes to, for the modelled keys
DeviceTopics ==
    {<<"work">>, <<"term_k_r">>, <<"otbor_g_1", "_new">>,
     <<"term_k_m", "_new">>}

\* the payloads of the commands sent to the emulators
CommandPayloads(relative_topic) ==
    IF relative_topic = <<"work">>
    THEN {IntText(0), IntText(9), IntText(11), FloatText(90), Text}
    ELSE IF relative_topic = <<"otbor_g_1", "_new">>
    THEN {IntText(15), FloatText(205), NanText, Text}
    ELSE {FloatText(985), Text}

\* device_emulator.py: the commands on the subscribed topics and the main
\* loop
NextDevice ==
    \/ \E relative_topic \in DeviceTopics :
          \E payload \in CommandPayloads(relative_topic) :
             device_on_message(topic_prefix \o relative_topic, payload)
    \/ device_on_message_flag_otb
    \/ \E term_k \in SimulatedTemperatures : simulate_device_changes(term_k)
    \/ device_publish

SpecDevice == Init /\ [][NextDevice]_vars

\* alco_esp_device_emulator.py, on_message: the dict it leaves
AlcoReceived(ds, topic, payload) ==
    LET relative_topic == replace(topic, topic_prefix, <<>>)
    IN IF relative_topic = <<"work">> THEN NewWork(ds, payload)
       ELSE IF EndsWith(relative_topic, <<"_new">>)
            THEN NewValue(ds, relative_topic, payload)
       ELSE ds

\* on_message of alco_esp_device_emulator.py for a message published by
\* origin, the operator or the emulator itself
alco_on_message(topic, payload, origin) ==
    /\ alco_device_state' = AlcoReceived(alco_device_state, topic, payload)
    /\ alco_command' = <<[topic |-> topic, payload |-> payload,
                          before |-> alco_device_state, origin |-> origin]>>
    /\ NoEvaluation("alco_on_message")
    /\ UNCHANGED <<windowVars, workerVars, msg_topic, emulatorVars,
                   alco_main_pc, alco_sent>>

\* a command of the operator handled by alco_esp_device_emulator.py
alco_command_received(topic, payload) ==
    /\ alco_on_message(topic, payload, "operator")
    /\ UNCHANGED alco_inbox

\* the network thread of alco_esp_device_emulator.py takes the next
\* message the broker forwarded
alco_message_delivered ==
    /\ alco_inbox # <<>>
    /\ alco_on_message(Head(alco_inbox).topic, Head(alco_inbox).payload,
                       Head(alco_inbox).origin)
    /\ alco_inbox' = Tail(alco_inbox)

\* simulate_device_changes of alco_esp_device_emulator.py, for the
\* modelled keys: term_k moves by a random amount
alco_simulate_device_changes(term_k) ==
    /\ alco_main_pc = 0
    /\ alco_device_state' = [alco_device_state EXCEPT !.term_k = term_k]
    /\ alco_main_pc' = 1
    /\ NoEvaluation("alco_simulate_device_changes")
    /\ UNCHANGED <<windowVars, workerVars, msg_topic, emulatorVars,
                   alco_sent, alco_inbox, alco_command>>

\* str(value): the code in "work" is an int, the other values are floats
Str(key, value) == IF key = "work" THEN IntText(value) ELSE FloatText(value)

\* one turn of `for key, value in device_state.items()` in the main loop
\* of alco_esp_device_emulator.py: every key is published, "work" too
alco_publish ==
    /\ alco_main_pc \in 1..Len(AlcoKeys)
    /\ Len(alco_sent) < MaxAlcoSent
    /\ LET key == AlcoKeys[alco_main_pc]
       IN alco_sent' = Append(alco_sent,
                          [topic |-> topic_prefix \o <<key>>,
                           payload |-> Str(key, alco_device_state[key])])
    /\ alco_main_pc' = IF alco_main_pc = Len(AlcoKeys) THEN 0
                       ELSE alco_main_pc + 1
    /\ NoEvaluation("alco_publish")
    /\ UNCHANGED <<windowVars, workerVars, msg_topic, emulatorVars,
                   alco_device_state, alco_inbox, alco_command>>

\* the filters on_connect of alco_esp_device_emulator.py subscribes to
AlcoSubscribed ==
    {topic_prefix \o <<"term_c_max", "_new">>,
     topic_prefix \o <<"term_c_min", "_new">>,
     topic_prefix \o <<"otbor_g_1", "_new">>,
     topic_prefix \o <<"otbor_t", "_new">>,
     topic_prefix \o <<"work">>}

\* the broker receives the next publication of the emulator and forwards
\* it to every subscriber of its topic, the emulator included
alco_publication_forwarded ==
    /\ alco_sent # <<>>
    /\ alco_sent' = Tail(alco_sent)
    /\ IF \E filter \in AlcoSubscribed : Matches(filter, Head(alco_sent).topic)
       THEN /\ Len(alco_inbox) < MaxAlcoInbox
            /\ alco_inbox' = Append(alco_inbox,
                                [topic |-> Head(alco_sent).topic,
                                 payload |-> Head(alco_sent).payload,
                                 origin |-> "emulator"])
       ELSE UNCHANGED alco_inbox
    /\ NoEvaluation("alco_publication_forwarded")
    /\ UNCHANGED <<windowVars, workerVars, msg_topic, emulatorVars,
                   alco_device_state, alco_main_pc, alco_command>>

\* the broker receives a command published by the operator and forwards
\* it to the emulator
operator_command(topic, payload) ==
    /\ \E filter \in AlcoSubscribed : Matches(filter, topic)
    /\ Len(alco_inbox) < MaxAlcoInbox
    /\ alco_inbox' = Append(alco_inbox, [topic |-> topic, payload |-> payload,
                                         origin |-> "operator"])
    /\ NoEvaluation("operator_command")
    /\ UNCHANGED <<windowVars, workerVars, msg_topic, emulatorVars,
                   alco_device_state, alco_main_pc, alco_sent, alco_command>>

\* the commands of the operator in the runs of NextAlco
OperatorPayloads(relative_topic) ==
    IF relative_topic = <<"work">> THEN {IntText(0), IntText(9)}
    ELSE {FloatText(205)}

\* alco_esp_device_emulator.py with the broker and the operator
NextAlco ==
    \/ \E relative_topic \in {<<"work">>, <<"otbor_g_1", "_new">>} :
          \E payload \in OperatorPayloads(relative_topic) :
             operator_command(topic_prefix \o relative_topic, payload)
    \/ alco_message_delivered
    \/ \E term_k \in SimulatedTemperatures : alco_simulate_device_changes(term_k)
    \/ alco_publish
    \/ alco_publication_forwarded

SpecAlco == Init /\ [][NextAlco]_vars

\* the topics of the commands applied to on_message of both emulators:
\* the subscribed ones, a parameter that is not held and a topic that is
\* no command
CommandTopics == DeviceTopics \cup {<<"foo", "_new">>, <<"foo">>}

\* on_message of both emulators applied to commands
NextCommand ==
    \/ \E relative_topic \in CommandTopics :
          \E payload \in CommandPayloads(relative_topic) :
             device_on_message(topic_prefix \o relative_topic, payload)
    \/ device_on_message_flag_otb
    \/ \E relative_topic \in CommandTopics \ {<<"term_k_r">>, <<"term_k_m", "_new">>} :
          \E payload \in CommandPayloads(relative_topic) :
             alco_command_received(topic_prefix \o relative_topic, payload)

SpecCommand == Init /\ [][NextCommand]_vars

\* the payloads of the device in the runs of NextWorker
WorkerPayloads == {Number(720)}

\* the worker thread with its client: connections and requests to publish
NextWorker ==
    \/ run
    \/ \E rc \in ConnectCodes : on_connect(rc)
    \/ on_disconnect
    \/ \E w \in SpinBoxes : \E v \in SpinBoxValues(w) : setValue(w, v)
    \/ publish_otbor_t_params
    \/ publish_message
    \/ publish

SpecWorker == Init /\ [][NextWorker]_vars

\* the connections of the client and the publications of the device that
\* the broker forwards to it
NextSubscribe ==
    \/ run
    \/ \E rc \in ConnectCodes : on_connect(rc)
    \/ on_disconnect
    \/ \E topic \in {"term_k", "term_d"} : \E payload \in WorkerPayloads :
          forward(FullTopic(topic), payload)
    \/ queuedMessageDelivered

SpecSubscribe == Init /\ [][NextSubscribe]_vars

\* publications under every topic of the user that the wildcard matches
NextTopic ==
    \/ run
    \/ \E rc \in ConnectCodes : on_connect(rc)
    \/ \E rest \in Texts(MaxRestLen) : \E payload \in WorkerPayloads :
          on_message_any(topic_prefix \o rest, payload)

SpecTopic == Init /\ [][NextTopic]_vars

----------------------------------------------------------------------------
(* Vocabulary of the properties.  The handlers that evaluate leave the     *)
(* settings, latest values, stores and clock they read in the state, so a  *)
(* state predicate can compare every recorded outcome with its inputs.     *)

Count(seq, x) == Cardinality({i \in 1..Len(seq) : seq[i] = x})

EvalsOf(sig) == {i \in 1..Len(evals) : evals[i].sig = sig}

LatestOf(sig) == all_latest_values[topic_key(sig)]
ThresholdOf(sig) == settings[setting_key(sig)]

\* the evaluation found the signal armed and left it triggered
Transition(r) == r.was_active /\ ~r.was_triggered /\ r.triggered /\ ~r.active

\* samples of a channel inside the window, by a filter over the whole history
InWindow(ch) ==
    {i \in 1..Len(timestamps[ch]) : timestamps[ch][i] >= now - settings["period_seconds"]}
PairCount ==
    Min2(Cardinality(InWindow("term_k")), Cardinality(InWindow("term_c")))
\* dT of the j-th pair counted from the end, j = 0 for the newest pair
PairDT(j) ==
    data["term_k"][Len(data["term_k"]) - j] - data["term_c"][Len(data["term_c"]) - j]
PairDTs == {PairDT(j) : j \in 0..(PairCount - 1)}
SetMax(S) == CHOOSE x \in S : \A y \in S : y <= x
SetMin(S) == CHOOSE x \in S : \A y \in S : x <= y
Variation == SetMax(PairDTs) - SetMin(PairDTs)
PastGate ==
    all_latest_values["term_k"].kind = "number" /\ all_latest_values["term_k"].value > 700

\* C1: an armed threshold signal triggers in an evaluation exactly when its
\* latest value is a number v with v >= T (v = T included); v < T leaves it
\* armed and monitoring, an absent value leaves it armed and waiting.
C1_ThresholdInclusive ==
    \A s \in ThresholdSignals : \A i \in EvalsOf(s) :
        LET r == evals[i]
            v == LatestOf(s)
        IN r.was_active =>
            /\ r.triggered <=> (v.kind = "number" /\ v.value >= ThresholdOf(s))
            /\ r.triggered <=> r.result = "triggered"
            /\ r.triggered <=> ~r.active
            /\ v = None => r.result = "waiting"
            /\ (v.kind = "number" /\ v.value < ThresholdOf(s)) => r.result = "monitoring"

C1_Witness ==
    \E s \in ThresholdSignals : \E i \in EvalsOf(s) :
        /\ evals[i].was_active /\ evals[i].triggered
        /\ LatestOf(s).kind = "number" /\ LatestOf(s).value = ThresholdOf(s)

\* the operator pressed the reset button of s, or accepted settings that
\* change a parameter of s
ResetOf(s, old_settings, new_settings, op) ==
    \/ op = "reset_" \o s
    \/ /\ op = "settings"
       /\ IF s = "stability"
          THEN \/ old_settings["delta_t"] # new_settings["delta_t"]
               \/ old_settings["period_seconds"] # new_settings["period_seconds"]
          ELSE old_settings[setting_key(s)] # new_settings[setting_key(s)]

EvaluatingOps == {"tick", "settings", "reset_t_kub", "reset_t_deflegmator", "reset_stability"}

\* C2: a triggered threshold signal whose latest value is >= T raises no
\* further alarm and stays triggered in any tick, in any reset of another
\* signal and in any settings update that keeps its threshold.
C2_OneShot ==
    [][\A s \in ThresholdSignals :
          ( /\ triggered[s]
            /\ lastOp' \in EvaluatingOps
            /\ ~ResetOf(s, settings, settings', lastOp')
            /\ LatestOf(s).kind = "number"
            /\ LatestOf(s).value >= ThresholdOf(s)' )
          => /\ Count(alarms', s) = 0
             /\ triggered'[s] /\ ~monitoring_active'[s]]_vars

C2_Witness ==
    /\ lastOp = "tick"
    /\ \E s \in ThresholdSignals :
          /\ triggered[s]
          /\ Count(alarms, s) = 0
          /\ \E i \in EvalsOf(s) : ~evals[i].was_active /\ evals[i].result = "disabled"

\* C3: every evaluation of a signal calls AlarmSink once when it takes the
\* signal from armed to triggered and not at all otherwise, and the signal
\* alarms of a handler are exactly those calls.
C3_AlarmPerTransition ==
    /\ \A i \in 1..Len(evals) :
          evals[i].alarm = IF Transition(evals[i]) THEN 1 ELSE 0
    /\ \A s \in Signals :
          Count(alarms, s) = Cardinality({i \in EvalsOf(s) : Transition(evals[i])})

C3_Witness ==
    /\ Count(alarms, "stability") = 2
    /\ Count(alarms, "t_kub") = 0
    /\ \E i \in EvalsOf("t_kub") : evals[i].result = "monitoring"

\* C4: in every state a triggered signal is not monitoring.
C4_TriggeredNotMonitoring ==
    \A s \in Signals : triggered[s] => ~monitoring_active[s]

C4_Witness ==
    /\ triggered["stability"] /\ triggered["t_kub"]
    /\ monitoring_active["t_deflegmator"]

\* C5: an evaluation that finds a threshold signal triggered re-arms it
\* exactly when its latest value is a number below T; the signal is then
\* armed at the end of the tick, and with a value >= T (v = T included) it is
\* still triggered at the end of the tick.
C5_AutoClear ==
    [][lastOp' = "tick" =>
         \A s \in ThresholdSignals :
            ( /\ triggered[s]
              /\ \E i \in 1..Len(evals') : evals'[i].sig = s
              /\ LatestOf(s).kind = "number" )
            => /\ LatestOf(s).value < ThresholdOf(s)
                    => /\ monitoring_active'[s] /\ ~triggered'[s]
                       /\ \E i \in 1..Len(evals') :
                              evals'[i].sig = s /\ evals'[i].result = "autoclear"
               /\ LatestOf(s).value >= ThresholdOf(s)
                    => /\ triggered'[s] /\ ~monitoring_active'[s]
                       /\ \A i \in 1..Len(evals') :
                              evals'[i].sig = s => evals'[i].result = "disabled"]_vars

C5_Witness ==
    /\ lastOp = "tick"
    /\ \E s \in ThresholdSignals :
          /\ monitoring_active[s] /\ ~triggered[s]
          /\ \E i \in EvalsOf(s) : evals[i].result = "autoclear"

\* the stability evaluations of the handler that ends in the primed state,
\* and for each of them the flags its predecessor left (the flags of the
\* unprimed state for the first one)
StabilityEvals(ev) == {i \in 1..Len(ev) : ev[i].sig = "stability"}
PrevStability(ev, i) == {j \in StabilityEvals(ev) : j < i}
LastOf(S) == CHOOSE x \in S : \A y \in S : y <= x
FoundAsLeft(ev, i, active0, triggered0) ==
    IF PrevStability(ev, i) = {}
    THEN ev[i].was_active = active0 /\ ev[i].was_triggered = triggered0
    ELSE /\ ev[i].was_active = ev[LastOf(PrevStability(ev, i))].active
         /\ ev[i].was_triggered = ev[LastOf(PrevStability(ev, i))].triggered
AutoClearBefore(ev, i) ==
    \E k \in 1..Len(ev) :
        k < i /\ ev[k].sig \in ThresholdSignals /\ ev[k].result = "autoclear"

ConditionHolds(s) ==
    IF s = "stability"
    THEN PastGate /\ PairCount >= 2 /\ Variation <= settings["delta_t"]
    ELSE LatestOf(s).kind = "number" /\ LatestOf(s).value >= ThresholdOf(s)

\* C7 as stated: when an operator reset of a signal returns, the signal is
\* triggered with exactly one AlarmSink call if its condition holds, and
\* armed with none if it does not.
C7_Original ==
    \A s \in Signals :
        (lastOp = "reset_" \o s /\ ~raised) =>
            IF ConditionHolds(s)
            THEN triggered[s] /\ ~monitoring_active[s] /\ Count(alarms, s) = 1
            ELSE monitoring_active[s] /\ ~triggered[s] /\ Count(alarms, s) = 0

\* C8: an evaluation of the stability signal with the latest term_k absent,
\* not a number or <= 70.0 (70.0 included) does not trigger it and calls
\* AlarmSink for it not at all, whatever the windows hold.
C8_StabilityGate ==
    ~PastGate =>
        /\ Count(alarms, "stability") = 0
        /\ \A i \in StabilityEvals(evals) :
              /\ ~Transition(evals[i])
              /\ evals[i].was_active =>
                    /\ evals[i].active /\ ~evals[i].triggered
                    /\ evals[i].result =
                          IF all_latest_values["term_k"].kind = "number"
                          THEN "gated" ELSE "waiting"

C8_Witness ==
    /\ all_latest_values["term_k"] = Number(700)
    /\ PairCount >= 2 /\ Variation <= settings["delta_t"]
    /\ \E i \in StabilityEvals(evals) : evals[i].was_active /\ evals[i].result = "gated"

\* C9: an evaluation of the stability signal with fewer than two pairs in
\* the window, n = min of the two window counts, does not trigger it.
C9_InsufficientData ==
    PairCount < 2 =>
        /\ Count(alarms, "stability") = 0
        /\ \A i \in StabilityEvals(evals) :
              /\ ~Transition(evals[i])
              /\ (evals[i].was_active /\ PastGate) => evals[i].result = "insufficient"

C9_Witness ==
    /\ Cardinality(InWindow("term_k")) >= 2
    /\ Cardinality(InWindow("term_c")) <= 1
    /\ Len(data["term_c"]) >= 1
    /\ \E i \in StabilityEvals(evals) : evals[i].result = "insufficient"

\* the two series of the stability example are the windows
ExampleWindows ==
    /\ data["term_k"] = <<800, 810, 790>>
    /\ data["term_c"] = <<700, 705, 695>>
    /\ Cardinality(InWindow("term_k")) = 3
    /\ Cardinality(InWindow("term_c")) = 3

\* an evaluation that finds the stability signal armed, past the gate and
\* with n >= 2 triggers it exactly when max(dT) - min(dT) <= delta_t;
\* triggering sets triggered, clears monitoring_active and calls AlarmSink
\* once, otherwise the signal stays armed
VarianceDecides ==
    (PastGate /\ PairCount >= 2) =>
        \A i \in StabilityEvals(evals) :
            evals[i].was_active =>
                IF Variation <= settings["delta_t"]
                THEN /\ evals[i].result = "triggered"
                     /\ evals[i].triggered /\ ~evals[i].active
                     /\ evals[i].alarm = 1
                ELSE /\ evals[i].result = "monitoring"
                     /\ evals[i].active /\ ~evals[i].triggered
                     /\ evals[i].alarm = 0

\* C10 as stated: the variance decides, and on the series K = 80, 81, 79
\* and C = 70, 70.5, 69.5 the variation is 1.5, which triggers with
\* delta_t = 2.0 and does not with delta_t = 1.0.
C10_Original ==
    /\ VarianceDecides
    /\ ExampleWindows =>
             \A i \in StabilityEvals(evals) :
                evals[i].was_active =>
                    /\ Variation = 15
                    /\ settings["delta_t"] = 20 => evals[i].triggered
                    /\ settings["delta_t"] = 10 => ~evals[i].triggered

\* C10 amended: the variance decides (equality included), and on the series
\* K = 80, 81, 79 and C = 70, 70.5, 69.5 the variation is 1.0, which
\* triggers with delta_t = 2.0 and with delta_t = 1.0 and does not with
\* delta_t = 0.2.
C10_VarianceTrigger ==
    /\ VarianceDecides
    /\ ExampleWindows =>
             \A i \in StabilityEvals(evals) :
                evals[i].was_active =>
                    /\ Variation = 10
                    /\ settings["delta_t"] = 20 => evals[i].triggered
                    /\ settings["delta_t"] = 10 => evals[i].triggered
                    /\ settings["delta_t"] = 2 => ~evals[i].triggered

C10_Witness ==
    /\ ExampleWindows
    /\ settings["delta_t"] = 10
    /\ lastOp = "tick"
    /\ \E i \in StabilityEvals(evals) :
          evals[i].was_active /\ evals[i].result = "triggered" /\ evals[i].alarm = 1

----------------------------------------------------------------------------
(* Windows and pairing *)

\* the values of the samples with timestamp >= start_time, in append order,
\* by one forward pass over the whole history
RECURSIVE ForwardFilter(_, _, _)
ForwardFilter(ts, d, start_time) ==
    IF ts = <<>> THEN <<>>
    ELSE (IF Head(ts) >= start_time THEN <<Head(d)>> ELSE <<>>)
         \o ForwardFilter(Tail(ts), Tail(d), start_time)

StartTime == now - settings["period_seconds"]
WindowOf(ch) == ForwardFilter(timestamps[ch], data[ch], StartTime)

\* the stability evaluations that got as far as the windows / the dT series
WindowedEvals ==
    {i \in StabilityEvals(evals) :
        evals[i].result \in {"insufficient", "triggered", "monitoring"}}
PairedEvals ==
    {i \in StabilityEvals(evals) : evals[i].result \in {"triggered", "monitoring"}}

\* C11: the dT series of a stability evaluation has n = min of the two
\* window counts entries, and its j-th entry from the end is the j-th sample
\* from the end of the term_k window minus the j-th sample from the end of
\* the term_c window, whatever their timestamps; the oldest surplus samples
\* of the longer window are not used.
C11_PositionalPairing ==
    \A i \in PairedEvals :
        LET K == WindowOf("term_k")
            C == WindowOf("term_c")
            n == Min2(Len(K), Len(C))
            d == evals[i].dts
        IN /\ Len(d) = n
           /\ \A j \in 0..(n - 1) : d[n - j] = K[Len(K) - j] - C[Len(C) - j]

C11_Witness ==
    \E i \in PairedEvals :
        /\ evals[i].k_window = <<800, 830, 830>>
        /\ evals[i].c_window = <<700, 700>>
        /\ evals[i].dts = <<130, 130>>
        /\ timestamps["term_k"][3] # timestamps["term_c"][2]

\* C12: the window a stability evaluation takes of a channel holds exactly
\* the values of the samples with timestamp >= start_time, in append order
\* (a sample with timestamp = start_time included), as a forward filter over
\* the whole history returns them.
C12_WindowIsFilter ==
    \A i \in WindowedEvals :
        /\ evals[i].k_window = WindowOf("term_k")
        /\ evals[i].c_window = WindowOf("term_c")

C12_Witness ==
    \E i \in WindowedEvals :
        /\ Len(evals[i].k_window) = 2
        /\ Len(data["term_k"]) = 3
        /\ timestamps["term_k"][1] < StartTime
        /\ timestamps["term_k"][2] = StartTime
        /\ timestamps["term_k"][3] > StartTime

----------------------------------------------------------------------------
(* Settings updates.  found holds the settings and the flags the update    *)
(* started from.                                                           *)

\* the accepted settings change a parameter of s
Changed(s) == ResetOf(s, found.settings, settings, "settings")

AnyAutoClear ==
    \E k \in 1..Len(evals) :
        evals[k].sig \in ThresholdSignals /\ evals[k].result = "autoclear"

\* C13: when a settings update completes, every signal with a changed
\* parameter has been evaluated armed and not triggered in the update, and
\* is triggered exactly when its condition holds under the new settings and
\* armed otherwise.
C13_ChangedSignalsReset ==
    lastOp = "settings" =>
        \A s \in Signals :
            Changed(s) =>
                /\ \E i \in EvalsOf(s) : evals[i].was_active /\ ~evals[i].was_triggered
                /\ triggered[s] <=> ConditionHolds(s)
                /\ monitoring_active[s] <=> ~ConditionHolds(s)

C13_Witness ==
    /\ lastOp = "settings"
    /\ Changed("t_kub") /\ found.triggered["t_kub"]
    /\ ~ConditionHolds("t_kub")
    /\ monitoring_active["t_kub"] /\ ~triggered["t_kub"]
    /\ Changed("stability") /\ found.triggered["stability"]
    /\ triggered["stability"] /\ Count(alarms, "stability") >= 1

\* a signal whose parameters the update keeps, triggered before the update
\* (a threshold signal with its value still at or above T), was left alone
Untouched(s) ==
    /\ triggered[s] /\ ~monitoring_active[s]
    /\ Count(alarms, s) = 0
    /\ \A i \in EvalsOf(s) : ~evals[i].was_active /\ evals[i].result = "disabled"

C14_AutoClearWitness ==
    /\ lastOp = "settings"
    /\ ~Changed("stability") /\ found.triggered["stability"]
    /\ AnyAutoClear
    /\ monitoring_active["stability"] /\ ~triggered["stability"]

----------------------------------------------------------------------------
(* Watchdog *)

\* more than 60 s without a message since the last one, and no 'no data'
\* alarm active
Silent ==
    /\ last_mqtt_message_time # NoTime
    /\ now - last_mqtt_message_time > 60
    /\ ~mqtt_data_timeout_alarm_active
    /\ mqtt_thread_running

NoData == "mqtt_timeout"

\* a tick fires one 'no data' notification and sets the flag exactly when
\* the silence is longer than 60 s and the flag is clear; a message clears
\* the flag and restarts the silence; nothing else touches either
WatchdogSteps ==
    [][ /\ lastOp' = "tick" =>
             IF Silent
             THEN /\ Count(alarms', NoData) = 1
                  /\ mqtt_data_timeout_alarm_active'
             ELSE /\ Count(alarms', NoData) = 0
                  /\ mqtt_data_timeout_alarm_active' = mqtt_data_timeout_alarm_active
        /\ lastOp' = "handle_message" =>
             /\ ~mqtt_data_timeout_alarm_active'
             /\ last_mqtt_message_time' = now
             /\ Count(alarms', NoData) = 0
        /\ lastOp' # "handle_message" =>
             last_mqtt_message_time' = last_mqtt_message_time
        /\ lastOp' \notin {"tick", "handle_message"} =>
             mqtt_data_timeout_alarm_active' = mqtt_data_timeout_alarm_active ]_vars

----------------------------------------------------------------------------
(* Errors, ingest and cadence *)

\* C16 as stated: the process never halts, and every tick completes with
\* no error escaping it and with each of the three signals evaluated to a
\* reported status.
C16_Original ==
    /\ ~halted
    /\ lastOp = "tick" =>
          /\ ~raised
          /\ \A s \in Signals :
                \E i \in EvalsOf(s) : evals[i].result # "raised"

\* the channel got one new sample (v, t) at its end, the deque dropping its
\* oldest sample when full, and the other channels none
OneNewSample(topic, v, t) ==
    /\ \A ch \in chart_temperature_topics \ {topic} :
          data'[ch] = data[ch] /\ timestamps'[ch] = timestamps[ch]
    /\ LET kept == IF Len(data[topic]) < window_size THEN 0 ELSE 1
       IN /\ data'[topic] =
                SubSeq(data[topic], kept + 1, Len(data[topic])) \o <<v>>
          /\ timestamps'[topic] =
                SubSeq(timestamps[topic], kept + 1, Len(timestamps[topic])) \o <<t>>

\* C17: handling a message (topic, payload) overwrites the latest value of
\* the topic with the raw payload, whatever the topic and the payload; the
\* store gets exactly one new sample (value, arrival time) for the channel
\* when the topic is term_d, term_c or term_k and the payload is a number,
\* and no store changes for any other topic or payload.
C17_Ingest ==
    [][lastOp' = "handle_message" =>
         \E topic \in DOMAIN all_latest_values :
            LET p == all_latest_values'[topic]
            IN /\ p # None
               /\ all_latest_values' = [all_latest_values EXCEPT ![topic] = p]
               /\ IF topic \in {"term_d", "term_c", "term_k"} /\ p.kind = "number"
                  THEN OneNewSample(topic, p.value, now)
                  ELSE data' = data /\ timestamps' = timestamps]_vars

\* a malformed term_k payload and a power payload are the latest values,
\* and the only sample stored is the one term_k number received before
C17_Witness ==
    /\ lastOp = "handle_message"
    /\ handled = 3
    /\ all_latest_values["term_k"] = Text
    /\ all_latest_values["power"] = Number(1000)
    /\ all_latest_values["term_c"] = None
    /\ Len(data["term_k"]) = 1
    /\ data["term_c"] = <<>>

\* C18: handling a message changes no signal flag and calls AlarmSink not
\* at all; the flags change and AlarmSink is called only in a tick, an
\* operator reset or a settings update, each of which evaluates all three
\* signals against the latest values of that moment, so an armed threshold
\* signal whose latest value is below T is not triggered by a tick whatever
\* values were received before.
C18_Cadence ==
    [][ /\ lastOp' = "handle_message" =>
             /\ monitoring_active' = monitoring_active
             /\ triggered' = triggered
             /\ alarms' = <<>>
        /\ ( \/ monitoring_active' # monitoring_active
             \/ triggered' # triggered
             \/ alarms' # <<>> ) => lastOp' \in EvaluatingOps
        /\ (lastOp' \in EvaluatingOps /\ ~raised') =>
             \A s \in Signals : \E i \in 1..Len(evals') : evals'[i].sig = s
        /\ lastOp' = "tick" =>
             \A s \in ThresholdSignals :
                ( /\ ~triggered[s]
                  /\ LatestOf(s).kind = "number"
                  /\ LatestOf(s).value < ThresholdOf(s) )
                => ~triggered'[s] /\ Count(alarms', s) = 0 ]_vars

\* a tick found term_k below T after a sample at T had been stored, and
\* left the kub signal armed
C18_Witness ==
    /\ lastOp = "tick"
    /\ data["term_k"] = <<760, 720>>
    /\ ThresholdOf("t_kub") = 760
    /\ monitoring_active["t_kub"] /\ ~triggered["t_kub"]
    /\ alarms = <<>>
    /\ \A i \in EvalsOf("t_kub") : evals[i].result = "monitoring"

\* C20: in every state the timestamps stored for a channel are in
\* non-decreasing order, and each channel holds as many timestamps as
\* values, at most window_size of them.
C20_TimestampsOrdered ==
    \A ch \in chart_temperature_topics :
        /\ Len(timestamps[ch]) = Len(data[ch])
        /\ Len(timestamps[ch]) <= window_size
        /\ \A i, j \in 1..Len(timestamps[ch]) :
              i < j => timestamps[ch][i] <= timestamps[ch][j]

\* more term_c samples were appended than the deque holds (term_c is the
\* only topic received, and all its payloads are numbers), and the
\* timestamps kept differ
C20_Witness ==
    /\ handled > window_size
    /\ all_latest_values["term_k"] = None
    /\ all_latest_values["power"] = None
    /\ Len(timestamps["term_c"]) = window_size
    /\ timestamps["term_c"][1] < timestamps["term_c"][window_size]

----------------------------------------------------------------------------
(* Messages in flight *)

\* the messages handled so far, in the order of their emission
Delivered == SubSeq(emitted, 1, handled)

\* the payloads of the messages of seq that carry the topic
RECURSIVE PayloadsOf(_, _)
PayloadsOf(seq, topic) ==
    IF seq = <<>> THEN <<>>
    ELSE (IF Head(seq).topic = topic THEN <<Head(seq).payload>> ELSE <<>>)
         \o PayloadsOf(Tail(seq), topic)

\* the last at most window_size entries of seq
Newest(seq) ==
    IF Len(seq) <= window_size THEN seq
    ELSE SubSeq(seq, Len(seq) - window_size + 1, Len(seq))

\* C19: the messages emitted and not yet handled wait in emission order,
\* none lost and none twice, and every state, so every state a tick, a
\* reset or another handler starts from, holds all effects of the messages
\* handled so far and none of a waiting one: per topic the latest value is
\* the payload of the last handled message, per channel the store holds the
\* handled samples in order with as many timestamps, and the last-message
\* time is set exactly when a message has been handled.
C19_Serialized ==
    /\ handled <= Len(emitted)
    /\ queue = SubSeq(emitted, handled + 1, Len(emitted))
    /\ \A topic \in {"term_k", "term_c"} :
          LET ps == PayloadsOf(Delivered, topic)
          IN /\ all_latest_values[topic] = IF ps = <<>> THEN None ELSE ps[Len(ps)]
             /\ data[topic] = [i \in 1..Len(Newest(ps)) |-> Newest(ps)[i].value]
             /\ Len(timestamps[topic]) = Len(Newest(ps))
    /\ (last_mqtt_message_time = NoTime) <=> (handled = 0)
    /\ last_mqtt_message_time # NoTime =>
          \E ch \in {"term_k", "term_c"} :
              /\ timestamps[ch] # <<>>
              /\ timestamps[ch][Len(timestamps[ch])] = last_mqtt_message_time

\* a tick ran between the handling of two messages while two others were
\* waiting, and evaluated the value handled last, not the one waiting
C19_Witness ==
    /\ lastOp = "tick"
    /\ handled = 2
    /\ Len(queue) = 2
    /\ queue[1] = Message("term_k", Number(760))
    /\ queue[2] = Message("term_c", Number(620))
    /\ all_latest_values["term_k"] = Number(720)
    /\ timestamps["term_k"] = <<0, 2>>
    /\ \E i \in EvalsOf("t_kub") : evals[i].result = "triggered"

----------------------------------------------------------------------------
(* Capacity of the store *)

\* the numbers received so far for a channel, in arrival order
Arrived(ch) == PayloadsOf(Delivered, ch)

\* C21: a channel never holds more than window_size samples, and after any
\* sequence of appends it holds the most recent min(count, window_size) of
\* the count samples that arrived for it, in arrival order: an append to a
\* full channel dropped exactly the oldest one.
C21_Capacity ==
    \A ch \in {"term_k", "term_c"} :
        LET count == Len(Arrived(ch))
            kept == Min2(count, window_size)
        IN /\ Len(data[ch]) <= window_size
           /\ Len(data[ch]) = kept
           /\ \A i \in 1..kept :
                 data[ch][i] = Arrived(ch)[count - kept + i].value

\* one more term_k sample arrived than the channel holds: the first one,
\* 72.0, is gone and the three after it are kept in arrival order
C21_Witness ==
    /\ handled = window_size + 1
    /\ Len(Arrived("term_k")) = window_size + 1
    /\ Arrived("term_k")[1] = Number(720)
    /\ Arrived("term_k")[2] = Number(760)
    /\ data["term_k"][1] = 760
    /\ data["term_k"][window_size] = 720

----------------------------------------------------------------------------
(* Stale data, the alarm dialog and the MQTT thread *)

ResetOps == {"reset_t_kub", "reset_t_deflegmator", "reset_stability"}

\* C22: while the 'no data' flag is set, a tick or a reset that completes has
\* evaluated all three signals; every evaluation that found a threshold
\* signal armed with its last-known latest value >= T triggered it with one
\* AlarmSink call, and an operator reset of a threshold signal whose
\* last-known value is >= T leaves it triggered with exactly one alarm.
C22_StaleStillEvaluates ==
    ( /\ mqtt_data_timeout_alarm_active
      /\ lastOp \in {"tick"} \cup ResetOps
      /\ ~raised )
    => /\ \A s \in Signals : EvalsOf(s) # {}
       /\ \A s \in ThresholdSignals : \A i \in EvalsOf(s) :
             (evals[i].was_active /\ ConditionHolds(s))
                 => Transition(evals[i]) /\ evals[i].alarm = 1
       /\ \A s \in ThresholdSignals :
             (lastOp = "reset_" \o s /\ ConditionHolds(s))
                 => /\ triggered[s] /\ ~monitoring_active[s]
                    /\ Count(alarms, s) = 1

\* the deflegmator signal was reset more than 60 s after the last message,
\* with the 'no data' flag set, and triggered again on the stale 70.0
C22_Witness ==
    /\ lastOp = "reset_t_deflegmator"
    /\ mqtt_data_timeout_alarm_active
    /\ now - last_mqtt_message_time > MQTT_DATA_TIMEOUT_SECONDS
    /\ all_latest_values["term_d"] = Number(700)
    /\ found.triggered["t_deflegmator"]
    /\ triggered["t_deflegmator"]
    /\ alarms = <<"t_deflegmator">>

----------------------------------------------------------------------------
(* The states of a signal *)

Armed(s) == monitoring_active[s] /\ ~triggered[s]
Triggered(s) == ~monitoring_active[s] /\ triggered[s]

\* the first evaluation of signal s in the last handler, 0 if there is none
FirstEvalOf(s) ==
    IF EvalsOf(s) = {} THEN 0 ELSE SetMin(EvalsOf(s))

\* C23: in every state each of the three signals is either armed or
\* triggered, never neither and never both; every evaluation starts from and
\* ends in such a pair of flags; and the first evaluation after a reset of a
\* signal finds it armed.
C23_NeverDisarmed ==
    /\ \A s \in Signals : Armed(s) \/ Triggered(s)
    /\ \A i \in 1..Len(evals) :
          /\ evals[i].was_active # evals[i].was_triggered
          /\ evals[i].active # evals[i].triggered
    /\ \A s \in Signals :
          (lastOp = "reset_" \o s /\ FirstEvalOf(s) # 0)
              => /\ evals[FirstEvalOf(s)].was_active
                 /\ ~evals[FirstEvalOf(s)].was_triggered

\* the kub signal, found triggered with the cube still at 72.0, was reset
\* by the operator: it was evaluated armed and triggered again, while the
\* deflegmator signal stayed armed
C23_Witness ==
    /\ lastOp = "reset_t_kub"
    /\ found.triggered["t_kub"] /\ ~found.monitoring_active["t_kub"]
    /\ evals[FirstEvalOf("t_kub")].was_active
    /\ Triggered("t_kub")
    /\ Armed("t_deflegmator")

----------------------------------------------------------------------------
(* Publication of the body-collection parameters *)

\* the publications publish_otbor_t_params requests for the values shown
TelaRequests ==
    << Message("term_c_max_new", Number(spinbox["term_c_max_telo"])),
       Message("term_c_min_new", Number(spinbox["term_c_min_telo"])),
       Message("otbor_t_new", Number(spinbox["otbor_t"])) >>

\* C24: publish_otbor_t_params requests no publication when T start >=
\* T stop, and otherwise requests exactly three: term_c_max_new with T stop,
\* term_c_min_new with T start and otbor_t_new with the PWM, in that order.
C24_InvertedLimitsRejected ==
    [][lastOp' = "publish_otbor_t_params" =>
         IF spinbox["term_c_min_telo"] >= spinbox["term_c_max_telo"]
         THEN publishRequested' = publishRequested
         ELSE publishRequested' = publishRequested \o TelaRequests]_vars

\* the operator entered 78.0 for both limits and pressed the button:
\* nothing was requested
C24_Witness ==
    /\ lastOp = "publish_otbor_t_params"
    /\ spinbox["term_c_min_telo"] = 780
    /\ spinbox["term_c_max_telo"] = 780
    /\ spinbox["otbor_t"] = 50
    /\ publishRequested = <<>>

\* with T start 78.0 below T stop 79.0 the three requests were made
C24_AcceptedWitness ==
    /\ lastOp = "publish_otbor_t_params"
    /\ spinbox["term_c_min_telo"] = 780
    /\ spinbox["term_c_max_telo"] = 790
    /\ publishRequested = TelaRequests

----------------------------------------------------------------------------
(* Alarms of one tick and the depth of the recursion *)

\* C25 as stated: a tick, with the nested evaluations its auto-clear resets
\* start, calls AlarmSink at most once for each signal.
C25_Original ==
    lastOp = "tick" => \A s \in Signals : Count(alarms, s) <= 1

\* the auto-clears of the last handler
AutoClears == {i \in 1..Len(evals) : evals[i].result = "autoclear"}

\* the calls of check_signal_conditions the handler itself makes: one by a
\* tick, one by a reset_* method, and in a settings update one for each
\* signal with a changed parameter and the final one
OwnCalls ==
    IF lastOp = "settings"
    THEN 1 + Cardinality({s \in Signals : Changed(s)})
    ELSE 1

\* C26: every handler that evaluates terminates after a bounded number of
\* evaluations.  A threshold signal auto-clears at most once in a handler,
\* because after its auto-clear every evaluation finds it armed with the
\* same latest value below T and leaves it armed; each auto-clear adds two
\* calls of check_signal_conditions (reset_func and reset_stability_signal)
\* to the handler's own, and each call evaluates at most three signals, all
\* three when no exception ends the handler.
C26_RecursionBounded ==
    lastOp \in EvaluatingOps =>
        /\ \A s \in ThresholdSignals :
              Cardinality({i \in AutoClears : evals[i].sig = s}) <= 1
        /\ \A i \in AutoClears : \A j \in EvalsOf(evals[i].sig) :
              j > i => /\ evals[j].was_active /\ ~evals[j].was_triggered
                       /\ evals[j].result = "monitoring"
        /\ Len(evals) <= 3 * (OwnCalls + 2 * Cardinality(AutoClears))
        /\ ~raised => Len(evals) = 3 * (OwnCalls + 2 * Cardinality(AutoClears))

\* a tick found both threshold signals triggered with values below their
\* thresholds: both auto-cleared, and the tick ended after five calls of
\* check_signal_conditions
C26_Witness ==
    /\ lastOp = "tick"
    /\ ~raised
    /\ \E i, j \in AutoClears :
          evals[i].sig = "t_kub" /\ evals[j].sig = "t_deflegmator"
    /\ Len(evals) = 15

----------------------------------------------------------------------------
(* The watchdog without a message and without the MQTT thread *)

\* C27: a tick that starts with no message ever received, or with the MQTT
\* thread not running, raises no 'no data' alarm and leaves the flag as it
\* was, whatever the clock shows.
C27_WatchdogSilent ==
    [][( /\ lastOp' = "tick"
         /\ \/ last_mqtt_message_time = NoTime
            \/ ~mqtt_thread_running )
       => /\ Count(alarms', NoData) = 0
          /\ mqtt_data_timeout_alarm_active' = mqtt_data_timeout_alarm_active]_vars

\* a tick ran more than 60 s after the last message with the thread stopped
\* by perform_graceful_shutdown: no alarm, and the flag is still clear
C27_Witness ==
    /\ lastOp = "tick"
    /\ ~halted
    /\ ~mqtt_thread_running
    /\ last_mqtt_message_time # NoTime
    /\ now - last_mqtt_message_time > MQTT_DATA_TIMEOUT_SECONDS
    /\ ~mqtt_data_timeout_alarm_active
    /\ alarms = <<>>

\* a tick ran 62 s after the start with no message received yet
C27_StartupWitness ==
    /\ lastOp = "tick"
    /\ mqtt_thread_running
    /\ last_mqtt_message_time = NoTime
    /\ now = MaxAlarmTime
    /\ alarms = <<>>
    /\ ~mqtt_data_timeout_alarm_active

----------------------------------------------------------------------------
(* The alarm notification dialog *)

\* C28: at most one alarm notification dialog exists in any state, and
\* after a handler that raised alarms it is the visible dialog with the
\* message of the last alarm raised; the dialogs of the earlier alarms of
\* the handler, and the one found, are gone.
C28_OneDialog ==
    /\ Len(alarm_dialogs) <= 1
    /\ alarms # <<>> =>
          alarm_dialogs = <<[message |-> alarms[Len(alarms)], visible |-> TRUE]>>

\* one tick raised the kub, the deflegmator and the 'no data' alarm: only
\* the 'no data' message is displayed
C28_Witness ==
    /\ lastOp = "tick"
    /\ alarms = <<"t_kub", "t_deflegmator", NoData>>
    /\ Len(alarm_dialogs) = 1
    /\ alarm_dialogs[1].message = NoData
    /\ alarm_dialogs[1].visible

\* C30: dismissing the alarm dialog changes no flag of any signal and not
\* the 'no data' flag, and raises nothing; in a tick that finds the dialog
\* dismissed, a triggered signal whose condition still holds stays triggered
\* with no further alarm unless a threshold signal auto-clears in the tick,
\* and a set 'no data' flag stays set with no further 'no data' alarm.
C30_DismissChangesNothing ==
    [][ /\ lastOp' = "accept" =>
             /\ monitoring_active' = monitoring_active
             /\ triggered' = triggered
             /\ mqtt_data_timeout_alarm_active' = mqtt_data_timeout_alarm_active
             /\ alarms' = <<>>
        /\ (lastOp' = "tick" /\ ~AlarmDialogVisible /\ ~raised') =>
             /\ \A s \in Signals :
                   (triggered[s] /\ ConditionHolds(s) /\ ~AnyAutoClear')
                       => triggered'[s] /\ Count(alarms', s) = 0
             /\ mqtt_data_timeout_alarm_active =>
                   /\ mqtt_data_timeout_alarm_active'
                   /\ Count(alarms', NoData) = 0 ]_vars

\* the dialog of the kub alarm was dismissed, and a later tick with the cube
\* still at 72.0 raised nothing: the signal is still triggered
C30_Witness ==
    /\ lastOp = "tick"
    /\ Len(alarm_dialogs) = 1
    /\ alarm_dialogs[1].message = "t_kub"
    /\ ~alarm_dialogs[1].visible
    /\ triggered["t_kub"] /\ ~monitoring_active["t_kub"]
    /\ ConditionHolds("t_kub")
    /\ alarms = <<>>

----------------------------------------------------------------------------
(* Values and their timestamps *)

\* the samples of a channel as the store pairs them by position
Pairs(ch) ==
    [i \in 1..Len(data[ch]) |-> <<data[ch][i], timestamps[ch][i]>>]

\* the pairs left after the eviction an append to this channel causes
AfterEviction(ch) ==
    IF Len(data[ch]) < window_size THEN Pairs(ch)
    ELSE SubSeq(Pairs(ch), 2, Len(data[ch]))

\* C29: after every step each channel has as many timestamps as values,
\* and its (value, timestamp) pairs are those of before, or those of before
\* without the oldest when the channel was full, followed by the pair of
\* the number just received and the time of its handling: a value and its
\* timestamp are stored together, stay at the same position and leave
\* together, also after malformed payloads and evictions.
C29_Aligned ==
    [][\A ch \in chart_temperature_topics :
          /\ Len(data'[ch]) = Len(timestamps'[ch])
          /\ \/ Pairs(ch)' = Pairs(ch)
             \/ /\ lastOp' = "handle_message"
                /\ all_latest_values'[ch].kind = "number"
                /\ Pairs(ch)' =
                      Append(AfterEviction(ch), <<all_latest_values'[ch].value, now>>)]_vars

\* four term_k numbers arrived at 0, 0, 1 and 2 s and then a malformed
\* term_k: the first sample was evicted with its timestamp, and the
\* malformed payload added neither a value nor a timestamp
C29_Witness ==
    /\ lastOp = "handle_message"
    /\ handled = window_size + 2
    /\ all_latest_values["term_k"] = Text
    /\ all_latest_values["term_c"] = None
    /\ all_latest_values["power"] = None
    /\ Pairs("term_k") = << <<830, 0>>, <<800, 1>>, <<830, 2>> >>

\* what the client has sent to the broker, keeps for the next connection
\* or is about to hand over
Outgoing == published \o out_messages \o publishing

\* C31: a publish request handled while the client is absent or not
\* connected only emits the status "no connection": it leaves the request
\* queue, nothing is sent, nothing is kept for later; and whatever the
\* broker gets, at once or after a reconnection, entered with a request
\* handled while the client was connected.
C31_NoConnectionNoPublish ==
    [][ /\ (lastOp' = "publish_message" /\ client # "connected") =>
              /\ publishRequested' = Tail(publishRequested)
              /\ connectionStatus' = "no_connection"
              /\ Outgoing' = Outgoing
              /\ publishing' = <<>>
        /\ Outgoing' # Outgoing =>
              /\ lastOp' = "publish_message"
              /\ client = "connected"
              /\ Outgoing' = Append(Outgoing,
                                Message(FullTopic(Head(publishRequested).topic),
                                        Head(publishRequested).payload)) ]_vars

\* a request was dropped after the connection was lost, an earlier one
\* having reached the broker
C31_Witness ==
    /\ lastOp = "publish_message"
    /\ client = "disconnected"
    /\ connectionStatus = "no_connection"
    /\ published # <<>>

\* a request was dropped before the worker had a client
C31_AbsentWitness ==
    /\ lastOp = "publish_message"
    /\ client = "None"
    /\ connectionStatus = "no_connection"
    /\ published = <<>>

\* C32: on_connect with rc = 0, the automatic reconnections included,
\* subscribes to exactly one filter, the wildcard '<username>/#', and with
\* any other rc to nothing; so a connected client holds that one filter and
\* every publication of the device the broker forwards is emitted for
\* handle_message exactly once.
C32_OneSubscription ==
    [][ /\ (lastOp' = "on_connect" /\ client' = "connected") =>
              subscriptions' = Append(subscriptions, wildcard_topic)
        /\ (lastOp' = "on_connect" /\ client' # "connected") =>
              subscriptions' = subscriptions
        /\ client' = "connected" => subscriptions' = <<wildcard_topic>>
        /\ lastOp' = "forward" =>
              \E topic \in Topics : \E payload \in WorkerPayloads :
                 /\ emitted' = Append(emitted, Message(topic, payload))
                 /\ queue' = Append(queue, Message(topic, payload)) ]_vars

\* the client has connected again after publications were forwarded to it
C32_Witness ==
    /\ lastOp = "on_connect"
    /\ client = "connected"
    /\ emitted # <<>>

\* a connection was refused
C32_RefusedWitness ==
    /\ lastOp = "on_connect"
    /\ client = "disconnected"
    /\ connectionStatus = "connect_error"
    /\ subscriptions = <<>>

\* two publications were forwarded and handle_message has run for both
C32_DeliveredWitness ==
    /\ Len(emitted) = 2
    /\ queue = <<>>
    /\ handled = 2

\* what follows the leading '<username>/' of the topic received last
Rest == SubSeq(msg_topic, Len(topic_prefix) + 1, Len(msg_topic))

\* C36: the key emitted for handle_message is the received topic without
\* its leading '<username>/': for '<username>/<rest>' it is <rest>, also
\* when <rest> contains '<username>/'.
C36_Original ==
    (lastOp = "on_message" /\ emitted # <<>>) =>
        /\ StartsWith(msg_topic, topic_prefix)
        /\ emitted[Len(emitted)].topic = Rest

\* the publication of flag_otb by device_emulator.py
FlagPublished ==
    /\ device_published # <<>>
    /\ device_published[1].topic = topic_prefix \o <<"flag_otb">>

\* C33: in device_emulator.py, after any sequence of commands on the
\* subscribed topics (on_message has returned from each), flag_otb is the
\* name of the work mode, WORK_STATE_NAMES[work] or Unknown(<code>) for a
\* code outside 0..10, and is published as such; nothing is ever published
\* under 'work'.
C33_FlagNamesWork ==
    /\ on_message_pc = "idle" =>
          device_state.flag_otb = WorkStateName(device_state.work)
    /\ (lastOp = "device_publish" /\ on_message_pc = "idle" /\ FlagPublished) =>
          device_published[1].payload =
             <<"str", WorkStateName(device_state.work)>>
    /\ device_published # <<>> =>
          device_published[1].topic # topic_prefix \o <<"work">>

\* the emulator publishes flag_otb after a command for a code outside
\* 0..10 that followed a command for mode 9
C33_Witness ==
    /\ lastOp = "device_publish"
    /\ FlagPublished
    /\ on_message_pc = "idle"
    /\ device_state.work = 11
    /\ device_published[1].payload = <<"str", <<"Unknown", 11>>>>
    /\ command # <<>>
    /\ command[1].before.work = 9

\* the publish loop has passed the key "work"
C33_WorkSkippedWitness ==
    /\ lastOp = "device_publish"
    /\ main_pc = 0
    /\ device_state.work = 9
    /\ device_published = <<>>

\* the topic of a command without the prefix
Relative(c) == replace(c.topic, topic_prefix, <<>>)

\* the payload of the command is no number
NotANumber(c) == c.payload.kind = "text"

\* the command names a parameter the dict did not hold
UnknownParameter(c) ==
    /\ EndsWith(Relative(c), <<"_new">>)
    /\ ~Holds(c.before, replace(Relative(c), <<"_new">>, <<>>))

\* the command carries the value the dict held
EqualsHeld(c) ==
    \/ /\ Relative(c) = <<"work">>
       /\ c.payload.kind = "int"
       /\ c.payload.value = c.before.work
    \/ /\ EndsWith(Relative(c), <<"_new">>)
       /\ ~UnknownParameter(c)
       /\ c.payload.kind \in {"int", "float"}
       /\ Float(c.payload) = c.before[Relative(c)[1]]

\* a 'work' or '<param>_new' command
WorkOrNew(c) ==
    Relative(c) = <<"work">> \/ EndsWith(Relative(c), <<"_new">>)

\* C34: a command whose payload is no number, that names a parameter the
\* emulator does not hold, or that carries the value already held leaves
\* device_state as it was; and the same 'work' or '<param>_new' command
\* applied once more to the state it produced changes nothing, in both
\* emulators.
C34_CommandsIdempotent ==
    /\ (lastOp = "device_on_message" /\ on_message_pc = "idle") =>
          LET c == command[1]
          IN /\ (NotANumber(c) \/ UnknownParameter(c) \/ EqualsHeld(c)) =>
                   device_state = c.before
             /\ device_state = Commanded(c.before, c.topic, c.payload)
             /\ WorkOrNew(c) =>
                   Commanded(device_state, c.topic, c.payload) = device_state
    /\ lastOp = "alco_on_message" =>
          LET c == alco_command[1]
          IN /\ (NotANumber(c) \/ UnknownParameter(c) \/ EqualsHeld(c)) =>
                   alco_device_state = c.before
             /\ WorkOrNew(c) =>
                   AlcoReceived(alco_device_state, c.topic, c.payload)
                      = alco_device_state

\* device_emulator.py ignored a work command that is no number while in
\* mode 9
C34_Witness ==
    /\ lastOp = "device_on_message"
    /\ on_message_pc = "idle"
    /\ Relative(command[1]) = <<"work">>
    /\ NotANumber(command[1])
    /\ device_state.work = 9
    /\ device_state = command[1].before

\* device_emulator.py got "15" for otbor_g_1 while holding 15
C34_EqualWitness ==
    /\ lastOp = "device_on_message"
    /\ Relative(command[1]) = <<"otbor_g_1", "_new">>
    /\ EqualsHeld(command[1])
    /\ command[1].payload = IntText(15)

\* alco_esp_device_emulator.py got a value for a parameter it does not
\* hold, after its mode had changed
C34_UnknownWitness ==
    /\ lastOp = "alco_on_message"
    /\ UnknownParameter(alco_command[1])
    /\ ~NotANumber(alco_command[1])
    /\ alco_device_state.work = 9

\* device_emulator.py changed its mode from 9 to 11, and the same command
\* again would change nothing
C34_ChangedWitness ==
    /\ lastOp = "device_on_message"
    /\ on_message_pc = "idle"
    /\ command[1].payload = IntText(11)
    /\ command[1].before.work = 9
    /\ device_state.work = 11

\* C35: in alco_esp_device_emulator.py the work mode changes only when a
\* 'work' command of the operator is handled: the emulator's own
\* publications under 'work', which the broker forwards back to it, never
\* change the mode, however they interleave with the commands.
C35_Original ==
    [][ alco_device_state'.work # alco_device_state.work =>
           alco_command'[1].origin = "operator" ]_vars

====
